---- MODULE Spec2Model ----
(***************************************************************************)
(* A model of the desktop application: the login gate (core/auth.py,       *)
(* main.py), the module manager that mounts one business panel at a time   *)
(* (manager.py, main.py) and the list/detail panels of the business        *)
(* modules (modules/*.py).                                                  *)
(*                                                                         *)
(* The specifications share the variables:                                 *)
(*   SpecLogin  the login window, from main() up to the main window;       *)
(*   SpecShell  the main window: sidebar, ModuleManager, panel lifetime;   *)
(*   SpecPanel  one mounted panel and its handlers;                        *)
(*   SpecEdit   one mounted panel with its recompute and save handlers;    *)
(*   SpecScore  the scoring engines called on drawn inputs;                *)
(*   SpecDash   the dashboard and the deliveries of its thread;            *)
(*   SpecPlan   the planning panel: title, sliders, save and import;       *)
(*   SpecCollision  the schedule engine's collision scan on drawn inputs.  *)
(* Text (titles, identifiers, filter text) is a sequence of one-character  *)
(* strings, so that lower-casing and substring search are computed.        *)
(***************************************************************************)
EXTENDS Integers, Sequences, FiniteSets, TLC

VARIABLES
    \* ---- login window (main.py, LoginWindow and main) ----
    u_input,        \* text of LoginWindow.u_input
    p_input,        \* text of LoginWindow.p_input
    login_btn,      \* LoginWindow.login_btn.isEnabled()
    authTimers,     \* pending QTimer.singleShot(1200, _exec_auth) callbacks
    lastAuth,       \* the last verify_credential call: arguments and result
    attempts,       \* number of verify_credential calls that returned invalid
    loginVisible,   \* login_ui is shown
    mainVisible,    \* main_win is shown
    running,        \* the event loop app.exec() is running
    \* ---- main window and module manager (main.py, manager.py) ----
    sidebar,        \* the module id of the button named "Active" ("" = none)
    container,      \* widgets in the viewport's layout, in layout order
    active_module,  \* ModuleManager.active_module: a widget id, 0 = None
    nWidgets,       \* number of EntryWidget objects constructed so far
    mounted,        \* the module of the widget active_module ("" = none)
    deleteLater,    \* widgets with a deferred delete posted and not yet run
    threads,        \* dashboard widgets whose LiveTrendThread is running
    staleUpdate,    \* update_dashboard has run on a widget after its replacement
    lastSwitch,     \* the last ModuleManager.switch_module call and outcome
    failedBefore,   \* some earlier switch_module call has failed
    prevDirty,      \* the panel replaced by the last mount had been mutated
    \* ---- the mounted panel (modules/*.py, EntryWidget) ----
    db,             \* the record store, a sequence of records
    focus,          \* the focused record: <<owner, oid>>, or NoFocus
    page,           \* index shown by the inspector's stacked widget
    kw,             \* text of the search box
    cat,            \* current text of the category selector
    view,           \* identities of the records shown by the list, in order
    nextOid,        \* next record object number of the mounted panel
    syncTimer,      \* feedback: a pending QTimer.singleShot(_finalize_sync)
    dirty,          \* a handler has mutated the store since construction
    lastOp,         \* the handler that ran last
    \* ---- the scoring engines (core/engine.py, modules/*.py) ----
    scoreCall,      \* the last call of a scoring function: name, inputs, result
    nEdits,         \* the number of save and recompute operations performed
    \* ---- the dashboard's log (modules/dashboard.py) ----
    log_vbox,       \* the log labels of the dashboard, top first, by delivery number
    delivered,      \* the number of update_dashboard deliveries so far
    \* ---- the planning panel (modules/planning.py) ----
    ui_title,       \* text of the title field
    gene_sliders,   \* values of the five gene sliders, in the order of the keys
    snapshot_manager, \* the snapshots saved by this panel, oldest first
    storage,        \* data_planning.json: whether it exists, and its contents
    planOp,         \* the two planning handlers that ran last, the latest second
    \* ---- the schedule panel's live analysis (modules/schedule.py) ----
    warnings        \* the result of the last detect_collision_risk call

loginVars == <<u_input, p_input, login_btn, authTimers, lastAuth, attempts,
               loginVisible, mainVisible, running>>
shellVars == <<sidebar, container, active_module, nWidgets, mounted, deleteLater,
               threads, staleUpdate, lastSwitch, failedBefore, prevDirty>>
panelVars == <<db, focus, page, kw, cat, view, nextOid, syncTimer, dirty, lastOp>>
scoreVars == <<scoreCall, nEdits>>
dashVars == <<log_vbox, delivered>>
planVars == <<ui_title, gene_sliders, snapshot_manager, storage, planOp>>
sideVars == <<dashVars, planVars, warnings>>
vars == <<loginVars, shellVars, panelVars, scoreVars, sideVars>>

-----------------------------------------------------------------------------
(* Bounds of the exploration.                                              *)

\* failed login attempts explored
MaxAttempts == 3
\* EntryWidget instances constructed in one run
MaxWidgets == 3
\* records a panel seeds its store with (the code seeds 4 to 35)
NSeed == 2
\* records a panel may create after seeding
MaxCreate == 1
\* the most save and recompute operations performed in one run
MaxEdits == 2

-----------------------------------------------------------------------------
(* core/auth.py                                                            *)

\* the user names and passwords typed into the login form
Usernames == {"", "admin", "Admin", "root"}
Passwords == {"", "123456", "admin123", "12345"}

\* hashlib.md5(password.encode()).hexdigest(), tabulated for Passwords
Md5Hex(p) ==
    CASE p = ""         -> "d41d8cd98f00b204e9800998ecf8427e"
      [] p = "123456"   -> "e10adc3949ba59abbe56e057f20f883e"
      [] p = "admin123" -> "0192023a7bbd73250516f069df18b500"
      [] p = "12345"    -> "827ccb0eea8a706c4c34a16891f84e7b"

\* SessionProvider._INTERNAL_REGISTRY
INTERNAL_REGISTRY == [u \in {"admin"} |-> "e10adc3949ba59abbe56e057f20f883e"]

MsgEmpty    == "credentials empty"
MsgMismatch == "identity mismatch"
MsgOk       == "verified"

\* verify_credential with the comparison against the account dropped
verify_credential_any_user(username, password) ==
    IF username = "" \/ password = ""
    THEN [valid |-> FALSE, msg |-> MsgEmpty]
    ELSE IF Md5Hex(password) = "e10adc3949ba59abbe56e057f20f883e"
         THEN [valid |-> TRUE, msg |-> MsgOk]
         ELSE [valid |-> FALSE, msg |-> MsgMismatch]

\* verify_credential without the emptiness test
verify_credential_no_empty_test(username, password) ==
    IF username \in DOMAIN INTERNAL_REGISTRY
       /\ Md5Hex(password) = "e10adc3949ba59abbe56e057f20f883e"
    THEN [valid |-> TRUE, msg |-> MsgOk]
    ELSE [valid |-> FALSE, msg |-> MsgMismatch]

\* SessionProvider.verify_credential(username, password) -> (valid, msg)
verify_credential(username, password) ==
    IF username = "" \/ password = ""
    THEN [valid |-> FALSE, msg |-> MsgEmpty]
    ELSE IF username \in DOMAIN INTERNAL_REGISTRY
            /\ Md5Hex(password) = "e10adc3949ba59abbe56e057f20f883e"
         THEN [valid |-> TRUE, msg |-> MsgOk]
         ELSE [valid |-> FALSE, msg |-> MsgMismatch]

-----------------------------------------------------------------------------
(* The scoring engines. Scores are kept in hundredths (round(x, 2) * 100), *)
(* random factors in thousandths, tabulated factors in ten-thousandths.    *)

\* a / b rounded to the nearest integer, for a >= 0 and b > 0
RoundDiv(a, b) == (2 * a + b) \div (2 * b)

Min2(a, b) == IF a <= b THEN a ELSE b
Max2(a, b) == IF a >= b THEN a ELSE b

\* the slider positions explored: both ends of setRange(0, 100) and the middle
Levels == {0, 50, 100}

\* sin(x) for x in [0, 1], x and the result in thousandths: the series
\* x - x^3/3! + x^5/5!
Sin1000(x) ==
    LET x2 == (x * x) \div 1000
        x3 == (x2 * x) \div 1000
        x5 == (x3 * x2) \div 1000
    IN  x - (x3 \div 6) + (x5 \div 120)

\* 1 + log1p(months / 12.0) * 0.22, tabulated for the ages in use
TimeBoost(months) ==
    CASE months = 0  -> 10000
      [] months = 12 -> 11525
      [] months = 72 -> 14281

\* random.uniform(0.97, 1.03)
MarketFluctuations == {970, 1000, 1030}

\* evaluate_node without the cap at 100
ResourceEngine_evaluate_node_uncapped(attr, fluct) ==
    LET raw == 45 * attr[1] + 20 * attr[2] + 25 * attr[3] + 10 * attr[4]
        boosted == RoundDiv(raw * TimeBoost(attr[5]), 10000)
    IN  RoundDiv(boosted * fluct, 1000)

\* resources.py, ResourceEngine.evaluate_node: attr is <<scarcity, technical,
\* heritage, potential, duration_months>>
ResourceEngine_evaluate_node(attr, fluct) ==
    LET raw == 45 * attr[1] + 20 * attr[2] + 25 * attr[3] + 10 * attr[4]
        boosted == RoundDiv(raw * TimeBoost(attr[5]), 10000)
    IN  Min2(10000, RoundDiv(boosted * fluct, 1000))

\* math.exp(-p / 2.5), tabulated for the protection levels 1..5
Suppression(p) ==
    CASE p = 1 -> 6703
      [] p = 2 -> 4493
      [] p = 3 -> 3012
      [] p = 4 -> 2019
      [] p = 5 -> 1353

\* random.uniform(0.9, 1.1)
RiskNoises == {900, 1000, 1100}

\* copyright.py, CopyrightSecurityCore.run_risk_matrix_analysis: attr is
\* <<heat, openness, prot_level>>
CopyrightSecurityCore_run_risk_matrix_analysis(attr, noise) ==
    LET base == 55 * attr[1] + 45 * attr[2]
        suppressed == RoundDiv(base * Suppression(attr[3]), 10000)
    IN  Min2(10000, RoundDiv(suppressed * noise, 1000))

\* workflow.py, DecisionEngine.calculate_confidence: scores is <<AI engine,
\* legal head, chief editor>>; the sum and the penalty are in thousandths
DecisionEngine_calculate_confidence(scores) ==
    LET weighted == 150 * scores[1] + 350 * scores[2] + 500 * scores[3]
        hi == Max2(scores[1], Max2(scores[2], scores[3]))
        lo == Min2(scores[1], Min2(scores[2], scores[3]))
        penalty == (hi - lo) * (hi - lo)
    IN  RoundDiv(Max2(0, Min2(100000, weighted - penalty)), 10)

\* core/engine.py, CultureAlgorithm.evaluate_content: the "score" entry for
\* data <<depth, novelty, interaction>>
CultureAlgorithm_evaluate_content(data) ==
    LET raw == 40 * data[1] + 30 * data[2] + 30 * data[3]
        confidence_factor == Sin1000(raw \div 10)
    IN  raw + RoundDiv(raw * confidence_factor, 10000)

\* math.exp(-0.02 * t), tabulated for the hours in use
Decay(t) ==
    CASE t = 0  -> 10000
      [] t = 1  -> 9802
      [] t = 24 -> 6188

\* dashboard.py:33 metrics.get('hours_passed', 1): the hours a caller passes
HoursPassed == {0, 1, 24}

\* random.uniform(0.95, 1.05)
InfluenceNoises == {950, 1000, 1050}

\* dashboard.py, MatrixAnalyticsEngine.calculate_influence: metrics is
\* <<depth, novelty, reach, interact, hours_passed>>
MatrixAnalyticsEngine_calculate_influence(metrics, noise) ==
    LET base_score == 35 * metrics[1] + 25 * metrics[2] + 20 * metrics[3]
                      + 20 * metrics[4]
        decayed == RoundDiv(base_score * Decay(metrics[5]), 10000)
    IN  RoundDiv(decayed * noise * 10, 1000)

\* schedule.py, ChronosPulseEngine.peak_matrix, in half hours after midnight
PeakMatrix(platform) ==
    CASE platform = "TikTok"   -> {25, 36, 43, 47}
      [] platform = "Bilibili" -> {24, 39, 44}
      [] platform = "WeChat"   -> {17, 24, 34, 42}
      [] platform = "RED"      -> {20, 37, 45}
      [] OTHER                 -> {24, 40}

\* math.exp(-(dist ** 2) / (2 * sigma ** 2)) * 100 rounded to two places,
\* for a distance of d half hours
GaussFit(d) ==
    CASE d = 0  -> 10000
      [] d = 1  -> 9231
      [] d = 2  -> 7261
      [] d = 3  -> 4868
      [] d = 4  -> 2780
      [] d = 5  -> 1353
      [] d = 6  -> 561
      [] d = 7  -> 198
      [] d = 8  -> 60
      [] d = 9  -> 15
      [] d = 10 -> 3
      [] d = 11 -> 1
      [] OTHER  -> 0

\* schedule.py, ChronosPulseEngine.calculate_resonance: t is the time of day
\* in half hours; the distance to a peak is taken around the clock
ChronosPulseEngine_calculate_resonance(platform, t) ==
    LET Dist(p) == LET d == IF t >= p THEN t - p ELSE p - t
                   IN  IF d > 24 THEN 48 - d ELSE d
        fits == {GaussFit(Dist(p)) : p \in PeakMatrix(platform)}
    IN  CHOOSE f \in fits : \A g \in fits : g <= f

\* analytics.py, InsightEngine.run_attribution_analysis: the momentum_score
\* of raw data with engagement 500 and sentiment 0.5, tabulated by views
InsightEngine_run_attribution_analysis(raw) ==
    CASE raw[1] = 10000 -> 3041
      [] raw[1] = 11000 -> 2555
      [] raw[1] = 12000 -> 2177
      [] raw[1] = 13000 -> 1877
      [] OTHER          -> 1636

\* no scoring function has been called
NoCall == [fn |-> "none", on |-> "", args |-> <<>>, jit |-> 0, out |-> 0]

\* the result of one call: the function, the platform it was called for (if
\* any), its numeric arguments, the random factor drawn and the value returned
Called(fn, on, args, jit, out) ==
    scoreCall' = [fn |-> fn, on |-> on, args |-> args, jit |-> jit, out |-> out]

-----------------------------------------------------------------------------
(* main.py: LoginWindow and main()                                         *)

NoAuth == [called |-> FALSE, u |-> "", p |-> "", valid |-> FALSE, msg |-> ""]

\* main(): main_win is built, login_ui is built and shown, app.exec() runs
\* planning.py:97 storage_path: the file does not exist
NoFile == [exists |-> FALSE, data |-> <<>>]

\* PlanDataModel.__init__ (planning.py:18): the title of a new plan
DefaultTitle == <<"n", "e", "w">>

\* planning.py:172-173 sld.setRange(0, 100), sld.setValue(50) for each of the five genes
DefaultGenes == <<50, 50, 50, 50, 50>>

\* no collision scan has run
NoScan ==
    [active |-> 0, target |-> [uid |-> <<>>, platform |-> "", exec_time |-> <<0, 0>>],
     pool |-> <<>>, out |-> {}]

\* the dashboard's log is empty (dashboard.py:188), the planning panel is as
\* its constructor leaves it (planning.py:93-100), no analysis has run
SideIdle ==
    /\ log_vbox = <<>>
    /\ delivered = 0
    /\ ui_title = DefaultTitle
    /\ gene_sliders = DefaultGenes
    /\ snapshot_manager = <<>>
    /\ planOp = <<"init", "init">>
    /\ warnings = NoScan

InitLoginVars ==
    /\ u_input = "admin"
    /\ p_input = "123456"
    /\ login_btn = TRUE
    /\ authTimers = 0
    /\ lastAuth = NoAuth
    /\ attempts = 0
    /\ loginVisible = TRUE
    /\ mainVisible = FALSE
    /\ running = TRUE
    /\ scoreCall = NoCall
    /\ nEdits = 0
    /\ SideIdle
    /\ storage = NoFile

\* the login window's handlers touch neither the main window nor a panel
LoginFrame == UNCHANGED <<shellVars, panelVars, scoreVars, sideVars>>

\* the user edits the user name field
EditUsername(u) ==
    /\ running /\ loginVisible
    /\ u # u_input
    /\ u_input' = u
    /\ UNCHANGED <<p_input, login_btn, authTimers, lastAuth, attempts,
                   loginVisible, mainVisible, running>>
    /\ LoginFrame

\* the user edits the password field
EditPassword(p) ==
    /\ running /\ loginVisible
    /\ p # p_input
    /\ p_input' = p
    /\ UNCHANGED <<u_input, login_btn, authTimers, lastAuth, attempts,
                   loginVisible, mainVisible, running>>
    /\ LoginFrame

\* process_login without setEnabled(False): the button stays clickable
\* while a check is pending
process_login_button_left_enabled ==
    /\ running /\ loginVisible
    /\ login_btn
    /\ attempts < MaxAttempts
    /\ authTimers < MaxAttempts
    /\ authTimers' = authTimers + 1
    /\ UNCHANGED <<u_input, p_input, login_btn, lastAuth, attempts,
                   loginVisible, mainVisible, running>>
    /\ LoginFrame

\* LoginWindow.process_login: the click on the enabled login button
process_login ==
    /\ running /\ loginVisible
    /\ login_btn
    /\ attempts < MaxAttempts
    /\ login_btn' = FALSE
    /\ authTimers' = authTimers + 1
    /\ UNCHANGED <<u_input, p_input, lastAuth, attempts,
                   loginVisible, mainVisible, running>>
    /\ LoginFrame

\* the success callback called whatever verify_credential returned
AuthGranted_always(r) == TRUE

\* main.py:233 `if valid:`
AuthGranted(r) == r.valid

\* main.on_success: login_ui.close(); main_win.show()
on_success ==
    /\ loginVisible' = FALSE
    /\ mainVisible' = TRUE

\* LoginWindow._exec_auth: the single-shot timer fires
exec_auth ==
    /\ running
    /\ authTimers > 0
    /\ authTimers' = authTimers - 1
    /\ LET r == verify_credential(u_input, p_input) IN
         /\ lastAuth' = [called |-> TRUE, u |-> u_input, p |-> p_input,
                         valid |-> r.valid, msg |-> r.msg]
         /\ IF AuthGranted(r)
            THEN /\ on_success
                 /\ UNCHANGED <<login_btn, attempts>>
            ELSE /\ login_btn' = TRUE
                 /\ attempts' = attempts + 1
                 /\ UNCHANGED <<loginVisible, mainVisible>>
    /\ UNCHANGED <<u_input, p_input, running>>
    /\ LoginFrame

\* the EXIT_SYSTEM button: QApplication.quit closes the open windows and
\* ends app.exec(); main() then leaves through sys.exit
exit_system ==
    /\ running /\ loginVisible
    /\ running' = FALSE
    /\ loginVisible' = FALSE
    /\ UNCHANGED <<u_input, p_input, login_btn, authTimers, lastAuth, attempts,
                   mainVisible>>
    /\ LoginFrame

-----------------------------------------------------------------------------
(* Text: sequences of one-character strings                                *)

\* str.lower() on one character of the alphabet in use
LowerChar(c) ==
    CASE c = "A" -> "a"
      [] c = "B" -> "b"
      [] c = "N" -> "n"
      [] OTHER   -> c

\* str.lower()
Lower(s) == [i \in 1..Len(s) |-> LowerChar(s[i])]

\* the Python test `sub in s` on strings
Contains(sub, s) ==
    \E i \in 0..(Len(s) - Len(sub)) : SubSeq(s, i + 1, i + Len(sub)) = sub

-----------------------------------------------------------------------------
(* modules/*.py: the records and stores of the panels                      *)

\* main.py, MainWindow.menu_configs: the nine module ids of the sidebar
ModuleNames == {"dashboard", "planning", "resources", "workflow", "distribution",
                "schedule", "analytics", "copyright", "feedback"}

\* a name modules.<name> does not resolve
UnknownName == "nonexistent"

\* the modules whose EntryWidget keeps a record store
StoreModules == ModuleNames \ {"dashboard", "planning"}

\* identifiers the constructors can draw: prefix, clock second and a random
\* number of two or three digits; two records may draw the same one
UidPool == {<<"N", "1">>, <<"N", "2">>}

\* titles (names, accounts, users) and categories (types, platforms) the
\* seeding loops draw from, by position in the store
TitlePool == << <<"A", "b">>, <<"b", "1">> >>
CatPool   == <<"c1", "c2">>
SeedTitle(i) == TitlePool[((i - 1) % Len(TitlePool)) + 1]
SeedCat(i)   == CatPool[((i - 1) % Len(CatPool)) + 1]

\* title and category the create handlers give a new record
NewTitle == <<"n", "a">>
NewCat(mod) ==
    CASE mod = "resources"    -> "c2"     \* resources.py:393 the scan type
      [] mod = "distribution" -> "c1"     \* distribution.py:365
      [] mod = "schedule"     -> "c1"     \* schedule.py:389
      [] mod = "copyright"    -> "c2"     \* copyright.py:395
      [] OTHER                -> "api"    \* feedback.py:346, no seeded platform

\* the first entry of the category selector: no category filter
AllSentinel(mod) ==
    CASE mod = "resources" -> "ALL_ASSET_DOMAINS"    \* resources.py:171
      [] mod = "analytics" -> "ALL_DIMENSIONS"       \* analytics.py:166
      [] OTHER             -> "none"

\* the text typed into a search box and the entries of a category selector
QueryTexts == {<<>>, <<"a">>, <<"B">>, <<"n", "1">>, <<"2">>}
CatChoices(mod) == {AllSentinel(mod), "c1", "c2"}

NoFocus == <<0, 0>>
Ident(r) == <<r.owner, r.oid>>

\* the inputs of the scoring function a constructor draws: gene_metrics
\* (scarcity, technical, heritage, potential, duration_months), factors
\* (heat, openness, prot_level), reviews (AI engine, legal head, chief
\* editor), raw_data (views) and exec_time (half hours after midnight)
DrawnAttr(mod) ==
    CASE mod = "resources" -> <<50, 60, 50, 50, 12>>
      [] mod = "copyright" -> <<50, 50, 3>>
      [] mod = "workflow"  -> <<80, 0, 0>>
      [] mod = "analytics" -> <<10000>>
      [] mod = "schedule"  -> <<24>>
      [] OTHER             -> <<>>

\* the platform a category stands for in the schedule panel
Platform(c) == IF c = "c1" THEN "TikTok" ELSE "Bilibili"

\* the random factor a scoring function of module mod can draw
Jitters(mod) ==
    CASE mod = "resources" -> MarketFluctuations
      [] mod = "copyright" -> RiskNoises
      [] OTHER             -> {1000}

\* the score module mod stores for a record: valuation, risk_index,
\* resonance_index, results['momentum_score']; the other records store none
ScoreOf(mod, c, attr, jit) ==
    CASE mod = "resources" -> ResourceEngine_evaluate_node(attr, jit)
      [] mod = "copyright" -> CopyrightSecurityCore_run_risk_matrix_analysis(attr, jit)
      [] mod = "schedule"  -> ChronosPulseEngine_calculate_resonance(Platform(c), attr[1])
      [] mod = "analytics" -> InsightEngine_run_attribution_analysis(attr)
      [] OTHER             -> 0

\* the modules whose records store a score
ScoredModules == {"resources", "copyright", "schedule", "analytics"}

\* the score a constructor leaves: computed from the drawn inputs, except
\* ScheduleNode.__init__, which sets resonance_index = 0.0
ConstructorScore(mod, c, attr) ==
    IF mod = "schedule" THEN 0 ELSE ScoreOf(mod, c, attr, 1000)

\* the constructors DigitalAssetEntity, AnalyticsReport, CopyrightNode,
\* ChannelNode, ScheduleNode, UserFeedbackNode, WorkflowTask; status and
\* current_stage are those of a new WorkflowTask (workflow.py:58-59)
NewRecord(w, oid, uid, title, c, attr, score) ==
    [owner |-> w, oid |-> oid, uid |-> uid, title |-> title, cat |-> c,
     attr |-> attr, score |-> score, hist |-> 1,
     status |-> "in_review", current_stage |-> 1]

\* one row of a list: the record it was rendered from and the id text shown
Row(r) == [id |-> Ident(r), uid |-> r.uid]
Rows(store) == [i \in 1..Len(store) |-> Row(store[i])]

\* the seeding loops (_seed_data, _seed_mock_database, ...): uids[i] is the
\* identifier drawn for the i-th record
SeedStore(mod, w, uids) ==
    IF mod \in StoreModules
    THEN [i \in 1..NSeed |->
             NewRecord(w, i, uids[i], SeedTitle(i), SeedCat(i), DrawnAttr(mod),
                       ScoreOf(mod, SeedCat(i), DrawnAttr(mod), 1000))]
    ELSE <<>>

SeedUids == [1..NSeed -> UidPool]
\* the identifier drawn while the module manager is explored: the manager
\* reads no identifier, so one draw stands for all
ShellUid == <<"N", "1">>

\* the draws a call of switch_module makes: none unless it constructs a
\* panel that seeds a store
SeedUidsOf(mod, fault) ==
    IF mod \in StoreModules /\ fault = "none"
    THEN {[i \in 1..NSeed |-> ShellUid]}
    ELSE {<<>>}

\* the most rows a list can show
MaxRows == NSeed + MaxCreate

-----------------------------------------------------------------------------
(* modules/*.py: construction of an EntryWidget                            *)

\* the module of the mounted panel ("" when nothing is mounted)
Mod == mounted

\* the store of a new EntryWidget that shares one list between instances
\* (a class-level list): the replaced panel's records stay in it
EntryWidget_store_shared(mod, w, uids, old) == old \o SeedStore(mod, w, uids)

\* EntryWidget.__init__: the store attribute is bound to a new empty list and
\* the seeding loop fills it; `old`, the store of the panel being replaced,
\* is not read
EntryWidget_store(mod, w, uids, old) == SeedStore(mod, w, uids)

\* EntryWidget.__init__ of module mod, as widget w: the store, no focus, the
\* empty inspector page, an empty search box, the first selector entry, and
\* the first render of the whole store
EntryWidget_new(mod, w, uids, old) ==
    LET store == EntryWidget_store(mod, w, uids, old) IN
    [db |-> store, focus |-> NoFocus, page |-> 0, kw |-> <<>>,
     cat |-> AllSentinel(mod), view |-> Rows(store), nextOid |-> Len(store) + 1]

\* the panel state while no EntryWidget is mounted
NoPanel ==
    [db |-> <<>>, focus |-> NoFocus, page |-> 0, kw |-> <<>>,
     cat |-> AllSentinel(""), view |-> <<>>, nextOid |-> 1]

PanelIs(p) ==
    /\ db = p.db          /\ focus = p.focus  /\ page = p.page
    /\ kw = p.kw          /\ cat = p.cat      /\ view = p.view
    /\ nextOid = p.nextOid
    /\ syncTimer = FALSE  /\ dirty = FALSE    /\ lastOp = "init"

PanelBecomes(p) ==
    /\ db' = p.db         /\ focus' = p.focus /\ page' = p.page
    /\ kw' = p.kw         /\ cat' = p.cat     /\ view' = p.view
    /\ nextOid' = p.nextOid
    /\ syncTimer' = FALSE /\ dirty' = FALSE   /\ lastOp' = "init"

-----------------------------------------------------------------------------
(* modules/*.py: list                                                      *)

\* the compound filter of resources.py and analytics.py: kw is the lowered
\* search text, sentinel the selector entry that matches every category
FilterPipeline(store, kwLow, c, sentinel) ==
    SelectSeq(store, LAMBDA e :
        /\ (Contains(kwLow, Lower(e.title)) \/ Contains(kwLow, Lower(e.uid)))
        /\ (c = sentinel \/ e.cat = c))

\* _exec_query with the search text compared as typed
Resources_exec_query_raw(store, text, c) ==
    Rows(FilterPipeline(store, text, c, AllSentinel("resources")))

\* resources.py, EntryWidget._exec_query: the cards of _refresh_matrix(output)
Resources_exec_query(store, text, c) ==
    Rows(FilterPipeline(store, Lower(text), c, AllSentinel("resources")))

\* analytics.py, EntryWidget._run_filter_pipeline: the rows of the table
Analytics_run_filter_pipeline(store, text, c) ==
    Rows(FilterPipeline(store, Lower(text), c, AllSentinel("analytics")))

\* _sync_table, _sync_table_view, _sync_global_table, _sync_global_views,
\* _refresh_all: one row per record of the store
SyncTable(store) == Rows(store)

\* the list a mutating handler of module mod leaves on screen
Refresh(mod, store) ==
    IF mod = "resources" THEN Resources_exec_query(store, kw, cat)
    ELSE SyncTable(store)

PanelFrame == UNCHANGED <<loginVars, shellVars, scoreVars, sideVars>>

\* resources.py: query_field.textChanged / type_selector.currentTextChanged
Resources_on_query_change(t, c) ==
    /\ mainVisible /\ Mod = "resources"
    /\ (t = kw) # (c = cat)
    /\ kw' = t
    /\ cat' = c
    /\ view' = Resources_exec_query(db, t, c)
    /\ lastOp' = "list"
    /\ UNCHANGED <<db, focus, page, nextOid, syncTimer, dirty>>
    /\ PanelFrame

\* analytics.py: search_box.textChanged / cat_filter.currentTextChanged
Analytics_on_query_change(t, c) ==
    /\ mainVisible /\ Mod = "analytics"
    /\ (t = kw) # (c = cat)
    /\ kw' = t
    /\ cat' = c
    /\ view' = Analytics_run_filter_pipeline(db, t, c)
    /\ lastOp' = "list"
    /\ UNCHANGED <<db, focus, page, nextOid, syncTimer, dirty>>
    /\ PanelFrame

-----------------------------------------------------------------------------
(* modules/*.py: create                                                    *)

\* list.insert(0, item) appended instead
InsertBack(store, r) == Append(store, r)

\* list.insert(0, item)
InsertFront(store, r) == <<r>> \o store

\* the body shared by the create handlers: build the record, insert it at
\* index 0, refresh the list
CreateRecord(mod, uid, title) ==
    /\ nextOid <= NSeed + MaxCreate
    /\ LET r == NewRecord(active_module, nextOid, uid, title, NewCat(mod),
                          DrawnAttr(mod),
                          ConstructorScore(mod, NewCat(mod), DrawnAttr(mod)))
       IN  /\ db' = InsertFront(db, r)
           /\ view' = Refresh(mod, InsertFront(db, r))
    /\ nextOid' = nextOid + 1
    /\ dirty' = TRUE
    /\ lastOp' = "create"
    /\ UNCHANGED <<focus, page, kw, cat>>

\* base names of the files picked in the import dialog
FileNames == {<<"n", "a">>, <<"A", "2">>}

\* resources.py, EntryWidget._handle_create_flow with a file chosen
Resources_handle_create_flow(f_name, uid) ==
    /\ mainVisible /\ Mod = "resources"
    /\ CreateRecord("resources", uid, f_name)
    /\ UNCHANGED syncTimer
    /\ PanelFrame

\* distribution.py, EntryWidget._add_node_flow
Distribution_add_node_flow(uid) ==
    /\ mainVisible /\ Mod = "distribution"
    /\ CreateRecord("distribution", uid, NewTitle)
    /\ UNCHANGED syncTimer
    /\ PanelFrame

\* schedule.py, EntryWidget._handle_create_node
Schedule_handle_create_node(uid) ==
    /\ mainVisible /\ Mod = "schedule"
    /\ CreateRecord("schedule", uid, NewTitle)
    /\ UNCHANGED syncTimer
    /\ PanelFrame

\* copyright.py, EntryWidget._handle_create_node
Copyright_handle_create_node(uid) ==
    /\ mainVisible /\ Mod = "copyright"
    /\ CreateRecord("copyright", uid, NewTitle)
    /\ UNCHANGED syncTimer
    /\ PanelFrame

\* feedback.py, EntryWidget._handle_sync: the enabled sync button is clicked
Feedback_handle_sync ==
    /\ mainVisible /\ Mod = "feedback"
    /\ ~syncTimer
    /\ nextOid <= NSeed + MaxCreate
    /\ syncTimer' = TRUE
    /\ lastOp' = "sync"
    /\ UNCHANGED <<db, focus, page, kw, cat, view, nextOid, dirty>>
    /\ PanelFrame

\* feedback.py, EntryWidget._finalize_sync: the single-shot timer fires
Feedback_finalize_sync(uid) ==
    /\ Mod = "feedback"
    /\ syncTimer
    /\ CreateRecord("feedback", uid, NewTitle)
    /\ syncTimer' = FALSE
    /\ PanelFrame

-----------------------------------------------------------------------------
(* modules/*.py: the focused record and its replacement in the store       *)

\* the record the focus refers to (current_active, focused_node, ...)
Focused == db[CHOOSE i \in 1..Len(db) : Ident(db[i]) = focus]

\* an update that takes the record out and puts the new version in front
ReplaceRecord_moved(store, id, r2) ==
    <<r2>> \o SelectSeq(store, LAMBDA e : Ident(e) # id)

\* attribute assignments on the record object: the store keeps the object
\* where it is, every other record is untouched
ReplaceRecord(store, id, r2) ==
    [i \in 1..Len(store) |-> IF Ident(store[i]) = id THEN r2 ELSE store[i]]

\* the store after copyright._exec_risk_simulation for record id with the
\* sliders at sl: heat and openness are written, prot_level stays, and the
\* risk index is recomputed; op_history is not appended to
RiskSimulated(store, id, sl, noise) ==
    LET i == CHOOSE k \in 1..Len(store) : Ident(store[k]) = id
        attr == <<sl[1], sl[2], store[i].attr[3]>>
    IN  ReplaceRecord(store, id,
            [store[i] EXCEPT !.attr = attr,
                             !.score = CopyrightSecurityCore_run_risk_matrix_analysis(attr, noise)])

-----------------------------------------------------------------------------
(* modules/*.py: select                                                    *)

\* next((n for n in store if n.uid == uid), None): the index, 0 for None
FirstByUid(store, uid) ==
    IF \E i \in 1..Len(store) : store[i].uid = uid
    THEN CHOOSE i \in 1..Len(store) :
            /\ store[i].uid = uid
            /\ \A j \in 1..(i - 1) : store[j].uid # uid
    ELSE 0

\* an identifier text that no record carries
StaleUid == <<"N", "0">>

\* the texts a select handler can read from the clicked item's row
ItemTexts == UidPool \cup {StaleUid}

\* the item handed to a select handler: a row on screen, or a row whose
\* identifier cell the user has edited to a text that matches no record;
\* the schedule table alone is read-only (schedule.py:213)
Clickable(uid) ==
    \/ \E row \in 1..Len(view) : view[row].uid = uid
    \/ uid = StaleUid /\ Mod # "schedule"

\* the handlers that keep the focus when the lookup finds nothing
\* (analytics._load_detail_report, feedback._load_detail_to_inspector)
SelectKeeping(uid) ==
    /\ Clickable(uid)
    /\ LET i == FirstByUid(db, uid) IN
         IF i # 0
         THEN /\ focus' = Ident(db[i])
              /\ page' = 1
         ELSE UNCHANGED <<focus, page>>
    /\ lastOp' = "select"
    /\ UNCHANGED <<db, kw, cat, view, nextOid, syncTimer, dirty>>

\* the handlers that assign the lookup's result to the focus
\* (distribution._select_node, schedule._load_node_to_inspector)
SelectAssigning(uid) ==
    /\ Clickable(uid)
    /\ LET i == FirstByUid(db, uid) IN
         IF i # 0
         THEN /\ focus' = Ident(db[i])
              /\ page' = 1
         ELSE /\ focus' = NoFocus
              /\ UNCHANGED page
    /\ lastOp' = "select"
    /\ UNCHANGED <<db, kw, cat, view, nextOid, syncTimer, dirty>>

\* the handlers that receive the record object itself
\* (resources._activate_inspector from a card, workflow._load_task_detail
\*  from the item's data)
SelectObject(row) ==
    /\ row \in 1..Len(view)
    /\ focus' = view[row].id
    /\ page' = 1
    /\ lastOp' = "select"
    /\ UNCHANGED <<db, kw, cat, view, nextOid, syncTimer, dirty>>

\* resources.py, EntryWidget._activate_inspector
Resources_activate_inspector(row) ==
    /\ mainVisible /\ Mod = "resources"
    /\ SelectObject(row)
    /\ PanelFrame

\* workflow.py, EntryWidget._load_task_detail
Workflow_load_task_detail(row) ==
    /\ mainVisible /\ Mod = "workflow"
    /\ SelectObject(row)
    /\ PanelFrame

\* analytics.py, EntryWidget._load_detail_report
Analytics_load_detail_report(uid) ==
    /\ mainVisible /\ Mod = "analytics"
    /\ SelectKeeping(uid)
    /\ PanelFrame

\* copyright.py, EntryWidget._load_inspector_data: a hit focuses the record,
\* sets the sliders to its factors and runs _exec_risk_simulation, which
\* draws a new noise; a miss changes nothing
Copyright_load_inspector_data(uid, noise) ==
    /\ mainVisible /\ Mod = "copyright"
    /\ Clickable(uid)
    /\ LET i == FirstByUid(db, uid) IN
         IF i # 0
         THEN /\ focus' = Ident(db[i])
              /\ page' = 1
              /\ db' = RiskSimulated(db, Ident(db[i]), db[i].attr, noise)
              /\ view' = SyncTable(RiskSimulated(db, Ident(db[i]), db[i].attr, noise))
              /\ dirty' = TRUE
         ELSE UNCHANGED <<focus, page, db, view, dirty>>
    /\ lastOp' = "select"
    /\ UNCHANGED <<kw, cat, nextOid, syncTimer>>
    /\ PanelFrame

\* feedback.py, EntryWidget._load_detail_to_inspector
Feedback_load_detail_to_inspector(uid) ==
    /\ mainVisible /\ Mod = "feedback"
    /\ SelectKeeping(uid)
    /\ PanelFrame

\* distribution.py, EntryWidget._select_node
Distribution_select_node(uid) ==
    /\ mainVisible /\ Mod = "distribution"
    /\ SelectAssigning(uid)
    /\ PanelFrame

\* schedule.py, EntryWidget._load_node_to_inspector
Schedule_load_node_to_inspector(uid) ==
    /\ mainVisible /\ Mod = "schedule"
    /\ SelectAssigning(uid)
    /\ PanelFrame

-----------------------------------------------------------------------------
(* modules/*.py: delete                                                    *)

\* a removal of every record that carries the identifier text of the object
ListRemove_by_uid(store, id) ==
    LET hits == {i \in 1..Len(store) : Ident(store[i]) = id} IN
    IF hits = {} THEN store
    ELSE LET u == store[CHOOSE i \in hits : TRUE].uid IN
         SelectSeq(store, LAMBDA r : r.uid # u)

\* list.remove(obj): the first element that is the object obj is removed
ListRemove(store, id) ==
    LET hits == {i \in 1..Len(store) : Ident(store[i]) = id} IN
    IF hits = {} THEN store
    ELSE LET k == CHOOSE i \in hits : \A j \in hits : i <= j IN
         SubSeq(store, 1, k - 1) \o SubSeq(store, k + 1, Len(store))

\* the body shared by the delete handlers, after the confirmation if any:
\* remove the focused record, clear the focus, show the empty page, refresh
DeleteFocused(mod, op) ==
    /\ focus # NoFocus
    /\ db' = ListRemove(db, focus)
    /\ focus' = NoFocus
    /\ page' = 0
    /\ view' = Refresh(mod, ListRemove(db, focus))
    /\ dirty' = TRUE
    /\ lastOp' = op
    /\ UNCHANGED <<kw, cat, nextOid, syncTimer>>

\* resources.py, EntryWidget._handle_delete_sequence, answered Yes
Resources_handle_delete_sequence ==
    /\ mainVisible /\ Mod = "resources"
    /\ DeleteFocused("resources", "delete")
    /\ PanelFrame

\* analytics.py, EntryWidget._handle_delete_report
Analytics_handle_delete_report ==
    /\ mainVisible /\ Mod = "analytics"
    /\ DeleteFocused("analytics", "delete")
    /\ PanelFrame

\* copyright.py, EntryWidget._handle_delete_node, answered Yes
Copyright_handle_delete_node ==
    /\ mainVisible /\ Mod = "copyright"
    /\ DeleteFocused("copyright", "delete")
    /\ PanelFrame

\* distribution.py, EntryWidget._delete_node, answered Yes
Distribution_delete_node ==
    /\ mainVisible /\ Mod = "distribution"
    /\ DeleteFocused("distribution", "delete")
    /\ PanelFrame

\* schedule.py, EntryWidget._handle_delete_node, answered Yes
Schedule_handle_delete_node ==
    /\ mainVisible /\ Mod = "schedule"
    /\ DeleteFocused("schedule", "delete")
    /\ PanelFrame

\* feedback.py, EntryWidget._handle_delete_node
Feedback_handle_delete_node ==
    /\ mainVisible /\ Mod = "feedback"
    /\ DeleteFocused("feedback", "delete")
    /\ PanelFrame

\* feedback.py, EntryWidget._handle_commit_feedback: the replied item leaves
\* the pool
Feedback_handle_commit_feedback ==
    /\ mainVisible /\ Mod = "feedback"
    /\ DeleteFocused("feedback", "commit")
    /\ PanelFrame

-----------------------------------------------------------------------------
(* modules/*.py: recompute                                                 *)

\* an edit handler runs: one more operation of the run's budget
Edit ==
    /\ nEdits < MaxEdits
    /\ nEdits' = nEdits + 1
    /\ UNCHANGED <<loginVars, shellVars, sideVars>>

\* the positions the user leaves the sliders at before a recompute: all at
\* the lower end or all at the upper end of setRange(0, 100)
SliderSettings == {<<l, l, l, l>> : l \in {0, 100}}

\* resources.py, EntryWidget._run_valuation_update: the four sliders are
\* written into gene_metrics, the valuation is recomputed, one log entry is
\* appended, the inspector is reloaded and the query re-run
Resources_run_valuation_update(sl, fluct) ==
    /\ mainVisible /\ Mod = "resources"
    /\ focus # NoFocus
    /\ LET r == Focused
           attr == <<sl[1], sl[2], sl[3], sl[4], r.attr[5]>>
           r2 == [r EXCEPT !.attr = attr,
                           !.score = ResourceEngine_evaluate_node(attr, fluct),
                           !.hist = @ + 1]
       IN  /\ db' = ReplaceRecord(db, focus, r2)
           /\ view' = Resources_exec_query(ReplaceRecord(db, focus, r2), kw, cat)
    /\ page' = 1
    /\ dirty' = TRUE
    /\ lastOp' = "recompute"
    /\ UNCHANGED <<focus, kw, cat, nextOid, syncTimer, scoreCall>>
    /\ Edit

\* copyright.py, EntryWidget._exec_risk_simulation from the run button
Copyright_exec_risk_simulation(sl, noise) ==
    /\ mainVisible /\ Mod = "copyright"
    /\ focus # NoFocus
    /\ db' = RiskSimulated(db, focus, sl, noise)
    /\ view' = SyncTable(RiskSimulated(db, focus, sl, noise))
    /\ dirty' = TRUE
    /\ lastOp' = "recompute"
    /\ UNCHANGED <<focus, page, kw, cat, nextOid, syncTimer, scoreCall>>
    /\ Edit

\* workflow.py, EntryWidget._run_consensus_algo: the confidence of the AI
\* review and the two sliders goes to the label, one log entry is appended;
\* task.reviews is not written and the task stores no confidence
Workflow_run_consensus_algo(sl) ==
    /\ mainVisible /\ Mod = "workflow"
    /\ focus # NoFocus
    /\ db' = ReplaceRecord(db, focus, [Focused EXCEPT !.hist = @ + 1])
    /\ Called("calculate_confidence", "", <<Focused.attr[1], sl[1], sl[2]>>, 1000,
              DecisionEngine_calculate_confidence(<<Focused.attr[1], sl[1], sl[2]>>))
    /\ dirty' = TRUE
    /\ lastOp' = "recompute"
    /\ UNCHANGED <<focus, page, kw, cat, view, nextOid, syncTimer>>
    /\ Edit

\* random.randint(100, 1000): the views a recalculation adds to a report
ViewsStep == 1000

\* analytics.py, EntryWidget._recalc_global: every report gains views and
\* has its results recomputed; the table is rebuilt from the whole store
Analytics_recalc_global ==
    /\ mainVisible /\ Mod = "analytics"
    /\ LET store == [i \in 1..Len(db) |->
                       [db[i] EXCEPT !.attr = <<@[1] + ViewsStep>>,
                                     !.score = InsightEngine_run_attribution_analysis(
                                                   <<db[i].attr[1] + ViewsStep>>)]]
       IN  /\ db' = store
           /\ view' = SyncTable(store)
    /\ dirty' = TRUE
    /\ lastOp' = "recompute"
    /\ UNCHANGED <<focus, page, kw, cat, nextOid, syncTimer, scoreCall>>
    /\ Edit

-----------------------------------------------------------------------------
(* modules/*.py: save                                                      *)

\* str.strip() for the blank character
Strip(t) ==
    LET solid == {i \in 1..Len(t) : t[i] # " "} IN
    IF solid = {} THEN <<>>
    ELSE SubSeq(t, CHOOSE i \in solid : \A j \in solid : i <= j,
                   CHOOSE i \in solid : \A j \in solid : i >= j)

\* resources.py:375 target_name = self.in_name.text().strip()
Resources_target_name(text) == Strip(text)

\* what the user leaves in the title field before a save: a padded title
\* and a blank one
SaveTitles == {<<" ", "a">>, <<" ">>}

\* resources.py, EntryWidget._commit_update: a blank name is refused with a
\* message; otherwise the stripped name and the type are written, one log
\* entry is appended and the query re-run
Resources_commit_update(text, c) ==
    /\ mainVisible /\ Mod = "resources"
    /\ focus # NoFocus
    /\ IF Resources_target_name(text) = <<>>
       THEN /\ lastOp' = "save refused"
            /\ UNCHANGED <<db, view, dirty>>
       ELSE /\ LET r2 == [Focused EXCEPT !.title = Resources_target_name(text),
                                         !.cat = c, !.hist = @ + 1]
               IN  /\ db' = ReplaceRecord(db, focus, r2)
                   /\ view' = Resources_exec_query(ReplaceRecord(db, focus, r2), kw, cat)
            /\ dirty' = TRUE
            /\ lastOp' = "save"
    /\ UNCHANGED <<focus, page, kw, cat, nextOid, syncTimer, scoreCall>>
    /\ Edit

\* copyright.py, EntryWidget._handle_save_changes: the title field is
\* written as it is, one history entry is appended
Copyright_handle_save_changes(text) ==
    /\ mainVisible /\ Mod = "copyright"
    /\ focus # NoFocus
    /\ LET r2 == [Focused EXCEPT !.title = text, !.hist = @ + 1]
       IN  /\ db' = ReplaceRecord(db, focus, r2)
           /\ view' = SyncTable(ReplaceRecord(db, focus, r2))
    /\ dirty' = TRUE
    /\ lastOp' = "save"
    /\ UNCHANGED <<focus, page, kw, cat, nextOid, syncTimer, scoreCall>>
    /\ Edit

\* workflow.py:367-368: the status and the stage a confirmed decision writes
DecisionStatus(is_pass) == IF is_pass THEN "closed" ELSE "rejected"
DecisionStage(is_pass) == IF is_pass THEN 3 ELSE 1

\* workflow.py, EntryWidget._finalize_decision(is_pass), answered Yes: the
\* buttons are on the editor page; status, stage and one log entry are
\* written to current_task, the empty page is shown, the list is rebuilt;
\* current_task is left as it is
Workflow_finalize_decision(is_pass) ==
    /\ mainVisible /\ Mod = "workflow"
    /\ focus # NoFocus
    /\ page = 1
    /\ LET r2 == [Focused EXCEPT !.status = DecisionStatus(is_pass),
                                 !.current_stage = DecisionStage(is_pass),
                                 !.hist = @ + 1]
       IN  /\ db' = ReplaceRecord(db, focus, r2)
           /\ view' = SyncTable(ReplaceRecord(db, focus, r2))
    /\ page' = 0
    /\ dirty' = TRUE
    /\ lastOp' = "finalize"
    /\ UNCHANGED <<focus, kw, cat, nextOid, syncTimer, scoreCall>>
    /\ Edit

\* what the user leaves in the time field before a save: noon and 12:30
SaveTimes == {24, 25}

\* schedule.py, EntryWidget._handle_save_node: title, platform and time are
\* written as they are and the resonance index is recomputed from them
Schedule_handle_save_node(text, c, t) ==
    /\ mainVisible /\ Mod = "schedule"
    /\ focus # NoFocus
    /\ LET r2 == [Focused EXCEPT !.title = text, !.cat = c, !.attr = <<t>>,
                     !.score = ChronosPulseEngine_calculate_resonance(Platform(c), t)]
       IN  /\ db' = ReplaceRecord(db, focus, r2)
           /\ view' = SyncTable(ReplaceRecord(db, focus, r2))
    /\ dirty' = TRUE
    /\ lastOp' = "save"
    /\ UNCHANGED <<focus, page, kw, cat, nextOid, syncTimer, scoreCall>>
    /\ Edit

\* distribution.py, EntryWidget._save_node: platform and account are
\* written as they are
Distribution_save_node(text, c) ==
    /\ mainVisible /\ Mod = "distribution"
    /\ focus # NoFocus
    /\ LET r2 == [Focused EXCEPT !.title = text, !.cat = c]
       IN  /\ db' = ReplaceRecord(db, focus, r2)
           /\ view' = SyncTable(ReplaceRecord(db, focus, r2))
    /\ dirty' = TRUE
    /\ lastOp' = "save"
    /\ UNCHANGED <<focus, page, kw, cat, nextOid, syncTimer, scoreCall>>
    /\ Edit

-----------------------------------------------------------------------------
(* manager.py and main.py: the module manager and the sidebar              *)

\* what can go wrong inside the try block of switch_module: nothing, the
\* import (or reload) of modules.<name> raises, EntryWidget() raises
Faults == {"none", "import", "ctor"}

\* a handler `except ImportError` in place of `except Exception`
Handled_import_only(fault) == fault = "import"

\* manager.py:31 `except Exception as e`: the errors the handler catches
Handled(fault) == fault \in {"import", "ctor"}

\* how a switch_module call ends: the widget mounted, the error printed, or
\* the error raised to the caller
Outcome(fault) ==
    IF fault = "none" THEN "mounted"
    ELSE IF Handled(fault) THEN "logged" ELSE "raised"

\* the old view left in the layout
Detach_skipped(cont, act) == cont

\* manager.py:24-26: layout().removeWidget(self.active_module) when a
\* module is active
Detach(cont, act) ==
    IF act # 0 THEN SelectSeq(cont, LAMBDA x : x # act) ELSE cont

\* the old view cleaned up ahead of the import and the construction
ContainerAfter_cleanup_first(cont, act, w, fault) ==
    IF fault = "none" THEN Append(Detach(cont, act), w) ELSE Detach(cont, act)

\* manager.py:12-29, the layout after the try block: the import and the
\* constructor run first, so an error leaves the layout as it was
ContainerAfter(cont, act, w, fault) ==
    IF fault = "none" THEN Append(Detach(cont, act), w) ELSE cont

\* ModuleManager.switch_module(module_name)
switch_module(name, fault, uids) ==
    LET w == nWidgets + 1 IN
    /\ lastSwitch' = [name |-> name, outcome |-> Outcome(fault)]
    /\ failedBefore' = (failedBefore \/ lastSwitch.outcome \in {"logged", "raised"})
    /\ container' = ContainerAfter(container, active_module, w, fault)
    /\ IF fault = "none"
       THEN /\ nWidgets < MaxWidgets
            /\ nWidgets' = w
            /\ mounted' = name
            /\ active_module' = w
            /\ deleteLater' = IF active_module # 0
                              THEN deleteLater \cup {active_module}
                              ELSE deleteLater
            /\ threads' = IF name = "dashboard" THEN threads \cup {w} ELSE threads
            /\ prevDirty' = dirty
            /\ PanelBecomes(EntryWidget_new(name, w, uids, db))
       ELSE /\ UNCHANGED <<nWidgets, mounted, active_module, deleteLater, threads, prevDirty>>
            /\ UNCHANGED panelVars

\* MainWindow.switch_module(mid): a sidebar button is clicked
MainWindow_switch_module(mid, fault, uids) ==
    /\ mainVisible
    /\ sidebar' = mid
    /\ switch_module(mid, fault, uids)
    /\ UNCHANGED <<staleUpdate, loginVars, scoreVars, sideVars>>

\* ModuleManager.switch_module called with a name that is no module
ModuleManager_switch_unknown ==
    /\ mainVisible
    /\ switch_module(UnknownName, "import", <<>>)
    /\ UNCHANGED <<sidebar, staleUpdate, loginVars, scoreVars, sideVars>>

\* the event loop runs the deferred delete of a replaced widget: the Qt
\* object is destroyed and its signal connections are dropped
DeferredDelete(w) ==
    /\ w \in deleteLater
    /\ deleteLater' = deleteLater \ {w}
    /\ UNCHANGED <<sidebar, container, active_module, nWidgets, mounted, threads,
                   staleUpdate, lastSwitch, failedBefore, prevDirty>>
    /\ UNCHANGED <<loginVars, panelVars, scoreVars, sideVars>>

\* dashboard.py, EntryWidget.__del__: the interpreter finalizes a destroyed
\* dashboard widget and terminates its thread
Dashboard_del(w) ==
    /\ w \in threads
    /\ w # active_module
    /\ w \notin deleteLater
    /\ threads' = threads \ {w}
    /\ UNCHANGED <<sidebar, container, active_module, nWidgets, mounted, deleteLater,
                   staleUpdate, lastSwitch, failedBefore, prevDirty>>
    /\ UNCHANGED <<loginVars, panelVars, scoreVars, sideVars>>

\* dashboard.py, LiveTrendThread.run emits data_received and the queued
\* call reaches EntryWidget.update_dashboard of a widget that still exists
LiveTrendThread_run(w) ==
    /\ w \in threads
    /\ (w = active_module \/ w \in deleteLater)
    /\ staleUpdate' = (staleUpdate \/ w # active_module)
    /\ UNCHANGED <<sidebar, container, active_module, nWidgets, mounted, deleteLater,
                   threads, lastSwitch, failedBefore, prevDirty>>
    /\ UNCHANGED <<loginVars, panelVars, scoreVars, sideVars>>

-----------------------------------------------------------------------------
(* The scoring engines called on their own                                 *)

ScoreFrame == UNCHANGED <<loginVars, shellVars, panelVars, nEdits, sideVars>>

\* the ages in months a DigitalAssetEntity can have
Months == {0, 72}

\* resources.py: ResourceEngine.evaluate_node(gene_metrics)
Call_evaluate_node(attr, fluct) ==
    /\ Called("evaluate_node", "", attr, fluct,
              ResourceEngine_evaluate_node(attr, fluct))
    /\ ScoreFrame

\* the protection levels a CopyrightNode can have
ProtLevels == {1, 5}

\* copyright.py: CopyrightSecurityCore.run_risk_matrix_analysis(factors)
Call_run_risk_matrix_analysis(attr, noise) ==
    /\ Called("run_risk_matrix_analysis", "", attr, noise,
              CopyrightSecurityCore_run_risk_matrix_analysis(attr, noise))
    /\ ScoreFrame

\* workflow.py: DecisionEngine.calculate_confidence(scores)
Call_calculate_confidence(scores) ==
    /\ Called("calculate_confidence", "", scores, 1000,
              DecisionEngine_calculate_confidence(scores))
    /\ ScoreFrame

\* core/engine.py: CultureAlgorithm.evaluate_content(data)
Call_evaluate_content(data) ==
    /\ Called("evaluate_content", "", data, 1000,
              CultureAlgorithm_evaluate_content(data))
    /\ ScoreFrame

\* dashboard.py: MatrixAnalyticsEngine.calculate_influence(metrics)
Call_calculate_influence(metrics, noise) ==
    /\ Called("calculate_influence", "", metrics, noise,
              MatrixAnalyticsEngine_calculate_influence(metrics, noise))
    /\ ScoreFrame

\* stats['active_users'] / 50 for random.randint(1000, 5000)
Reaches == {20, 100}

\* the deliveries of data_received explored
MaxDeliveries == 32

\* dashboard.py:273 `if self.log_vbox.count() > 30`
LogLimit == 30

\* the label on top is taken out when the log is over its limit
LogAfter_newest_removed(log, e) ==
    LET ins == <<e>> \o log IN
    IF Len(ins) > LogLimit THEN SubSeq(ins, 2, Len(ins)) ELSE ins

\* dashboard.py:270-275: insertWidget(0, log_item), then takeAt(count - 1)
\* when the layout holds more than 30 items
LogAfter(log, e) ==
    LET ins == <<e>> \o log IN
    IF Len(ins) > LogLimit THEN SubSeq(ins, 1, Len(ins) - 1) ELSE ins

\* dashboard.py, EntryWidget.update_dashboard: the influence it computes for
\* the Total_Influence card, hours_passed left to its default, and the log
\* label it adds
Dashboard_update_dashboard(reach, noise) ==
    /\ mounted = "dashboard"
    /\ delivered < MaxDeliveries
    /\ Called("update_dashboard", "", <<90, 85, reach, 75, 1>>, noise,
              MatrixAnalyticsEngine_calculate_influence(<<90, 85, reach, 75, 1>>, noise))
    /\ delivered' = delivered + 1
    /\ log_vbox' = LogAfter(log_vbox, delivered + 1)
    /\ UNCHANGED <<loginVars, shellVars, panelVars, nEdits, planVars, warnings>>

\* the platforms of the schedule panel's selector and one it does not list
Platforms == {"TikTok", "Bilibili", "WeChat", "RED", "other"}

\* the times of day explored, in half hours: midnight, noon, 12:30, 23:30
TimesOfDay == {0, 24, 25, 47}

\* schedule.py: ChronosPulseEngine.calculate_resonance(platform, qtime_obj)
Call_calculate_resonance(platform, t) ==
    /\ Called("calculate_resonance", platform, <<t>>, 1000,
              ChronosPulseEngine_calculate_resonance(platform, t))
    /\ ScoreFrame

-----------------------------------------------------------------------------
(* planning.py: save and import of the planning panel                      *)
(* A snapshot is kept with its title and its five gene values; the file is *)
(* the JSON text of each, entry by entry.                                  *)

\* the snapshots a run of the planning panel saves
MaxSaves == 2

RECURSIVE JsonEscape(_)
\* a string written as it is
JsonEscape_none(t) == t

\* json.dump of a string without the quotes around it: `"` and `\` are
\* written with a backslash before them (ensure_ascii=False leaves the
\* other characters as they are)
JsonEscape(t) ==
    IF t = <<>> THEN <<>>
    ELSE IF Head(t) \in {"\"", "\\"}
         THEN <<"\\", Head(t)>> \o JsonEscape(Tail(t))
         ELSE <<Head(t)>> \o JsonEscape(Tail(t))

\* json.load of the inside of a string: a backslash stands for the
\* character after it
RECURSIVE JsonUnescape(_)
JsonUnescape(t) ==
    IF t = <<>> THEN <<>>
    ELSE IF Head(t) = "\\" /\ Len(t) >= 2
         THEN <<t[2]>> \o JsonUnescape(Tail(Tail(t)))
         ELSE <<Head(t)>> \o JsonUnescape(Tail(t))

\* the decimal digits json.dump writes for an int, and their value
Digits == <<"0", "1", "2", "3", "4", "5", "6", "7", "8", "9">>

RECURSIVE JsonNumber(_)
JsonNumber(n) ==
    IF n < 10 THEN <<Digits[n + 1]>>
    ELSE JsonNumber(n \div 10) \o <<Digits[(n % 10) + 1]>>

RECURSIVE JsonInt(_)
JsonInt(t) ==
    LET d == (CHOOSE k \in 1..10 : Digits[k] = t[Len(t)]) - 1 IN
    IF Len(t) = 1 THEN d ELSE 10 * JsonInt(SubSeq(t, 1, Len(t) - 1)) + d

\* planning.py:338 json.dump(self.snapshot_manager, f, ...)
JsonDump(snaps) ==
    [i \in 1..Len(snaps) |->
        [title |-> <<"\"">> \o JsonEscape(snaps[i].title) \o <<"\"">>,
         genes |-> [k \in 1..Len(snaps[i].genes) |-> JsonNumber(snaps[i].genes[k])]]]

\* planning.py:350 json.load(f)
JsonLoad(text) ==
    [i \in 1..Len(text) |->
        [title |-> JsonUnescape(SubSeq(text[i].title, 2, Len(text[i].title) - 1)),
         genes |-> [k \in 1..Len(text[i].genes) |-> JsonInt(text[i].genes[k])]]]

\* planning.py:337 open(self.storage_path, "w"): the file, written anew
Written(text) == [exists |-> TRUE, data |-> text]

\* the titles typed into the title field: a plain one, and one made of a
\* backslash and a double quote
PlanTitles == {<<"a">>, <<"\\", "\"">>}

\* the positions a gene slider is moved to (its range is 0..100)
SliderEnds == {0, 100}

\* what open(self.storage_path, "w") does: it succeeds, or it raises and the
\* file is left as it was
DiskOutcomes == {"ok", "fails"}

\* the files an earlier run can have left: none, or one saved snapshot
EarlierFiles ==
    {NoFile, Written(JsonDump(<<[title |-> <<"o">>, genes |-> <<1, 20, 3, 4, 5>>]>>))}

PlanFrame ==
    UNCHANGED <<loginVars, shellVars, panelVars, scoreCall, dashVars, warnings>>

\* the user edits the title field
Planning_edit_title(t) ==
    /\ mainVisible /\ Mod = "planning"
    /\ nEdits < MaxEdits
    /\ nEdits' = nEdits + 1
    /\ ui_title' = t
    /\ planOp' = <<planOp[2], "edit">>
    /\ UNCHANGED <<gene_sliders, snapshot_manager, storage>>
    /\ PlanFrame

\* the user moves gene slider k (planning.py:170-174; _recalculate_all
\* rewrites labels only)
Planning_move_slider(k, v) ==
    /\ mainVisible /\ Mod = "planning"
    /\ nEdits < MaxEdits
    /\ nEdits' = nEdits + 1
    /\ gene_sliders' = [gene_sliders EXCEPT ![k] = v]
    /\ planOp' = <<planOp[2], "edit">>
    /\ UNCHANGED <<ui_title, snapshot_manager, storage>>
    /\ PlanFrame

\* planning.py, EntryWidget._handle_save_action: the snapshot is appended to
\* snapshot_manager, then the whole list is written over the file
Planning_handle_save_action(disk) ==
    /\ mainVisible /\ Mod = "planning"
    /\ Len(snapshot_manager) < MaxSaves
    /\ LET plan_dict == [title |-> ui_title, genes |-> gene_sliders]
           snaps == Append(snapshot_manager, plan_dict)
       IN  /\ snapshot_manager' = snaps
           /\ storage' = IF disk = "ok" THEN Written(JsonDump(snaps)) ELSE storage
    /\ planOp' = <<planOp[2], IF disk = "ok" THEN "save" ELSE "save failed">>
    /\ UNCHANGED <<ui_title, gene_sliders, nEdits>>
    /\ PlanFrame

\* planning.py, EntryWidget._handle_import_action: without a file a warning
\* and nothing else; with one, title and sliders are set from its last entry
Planning_handle_import_action ==
    /\ mainVisible /\ Mod = "planning"
    /\ IF ~storage.exists \/ JsonLoad(storage.data) = <<>>
       THEN UNCHANGED <<ui_title, gene_sliders>>
       ELSE LET data == JsonLoad(storage.data)
                last == data[Len(data)]
            IN  /\ ui_title' = last.title
                /\ gene_sliders' = last.genes
    /\ planOp' = <<planOp[2], IF storage.exists THEN "import" ELSE "import none">>
    /\ UNCHANGED <<snapshot_manager, storage, nEdits>>
    /\ PlanFrame

-----------------------------------------------------------------------------
(* schedule.py: ChronosPulseEngine.detect_collision_risk                   *)
(* A time of day is <<hour, minute>>.  The engine turns it into the double *)
(* hour + minute / 60.0; the operators below compute, in integers, by how  *)
(* much that double differs from the exact value, in units of              *)
(* 1 / (60 * 2^58), which every double met here is a multiple of.          *)

RECURSIVE Pow2Mod(_, _)
\* 2^s modulo n
Pow2Mod(s, n) == IF s = 0 THEN 1 % n ELSE (2 * Pow2Mod(s - 1, n)) % n

\* the k with 2^-k <= m/60 < 2^-(k-1): the double m / 60.0 is a multiple of
\* 2^-(52+k)
MinuteExp(m) == CHOOSE k \in 1..6 : m * 2^k >= 60 /\ m * 2^(k - 1) < 60

\* the exponent of the double hour + minute / 60.0 for hour >= 1
HourExp(h) == CHOOSE e \in 0..4 : 2^e <= h /\ h < 2^(e + 1)

\* schedule.py:65,69: the double `exec_time.hour() + exec_time.minute() /
\* 60.0` minus the exact hour + minute/60.  The quotient is rounded to 53
\* bits (remainder r of the division by 60, never a tie), the sum drops the
\* t low bits of the quotient's mantissa, rounding to nearest, ties to even.
TimeValueErr(tm) ==
    LET h == tm[1]
        m == tm[2]
    IN  IF m = 0 THEN 0
        ELSE LET k   == MinuteExp(m)
                 t   == IF h = 0 THEN 0 ELSE k + HourExp(h)
                 M   == 60 * 2^(t + 1)
                 R   == (m * Pow2Mod(52 + k, M)) % M
                 r   == R % 60
                 up  == IF r > 30 THEN 1 ELSE 0
                 e1  == IF r > 30 THEN 60 - r ELSE 0 - r
                 N   == ((R \div 60) + up) % 2^(t + 1)
                 low == N % 2^t
                 bit == (N \div 2^t) % 2
                 adj == IF t = 0 THEN 0
                        ELSE IF low > 2^(t - 1) \/ (low = 2^(t - 1) /\ bit = 1)
                             THEN 2^t - low
                             ELSE 0 - low
             IN  (e1 + 60 * adj) * 2^(6 - k)

\* minutes since midnight
Minutes(tm) == tm[1] * 60 + tm[2]

\* schedule.py:70-71: `abs(t_val - item_val) < 1.5` on the two doubles.  The
\* difference rounds to a double below 1.5 exactly when it is below
\* 1.5 - 2^-53, which is 1920 units below 1.5.
DiffBelowLimit(a, b) ==
    LET d == IF Minutes(a) >= Minutes(b) THEN Minutes(a) - Minutes(b)
             ELSE Minutes(b) - Minutes(a)
        delta == IF Minutes(a) >= Minutes(b)
                 THEN TimeValueErr(a) - TimeValueErr(b)
                 ELSE TimeValueErr(b) - TimeValueErr(a)
    IN  IF d < 90 THEN TRUE
        ELSE IF d > 90 THEN FALSE
        ELSE delta < 0 - 1920

\* ChronosPulseEngine.detect_collision_risk(target_node, pool): the indices
\* of the pool nodes a warning is appended for
ChronosPulseEngine_detect_collision_risk(target, pool) ==
    {j \in 1..Len(pool) :
        /\ pool[j].uid # target.uid
        /\ pool[j].platform = target.platform
        /\ DiffBelowLimit(target.exec_time, pool[j].exec_time)}

\* schedule.py:351-352, _run_live_analysis: the dummy node built from the
\* editor's platform and time, given the uid of the active item
LiveAnalysisTarget(active, pf, tm) ==
    [uid |-> active.uid, platform |-> pf, exec_time |-> tm]

\* the times of day the scan is run on, and the platforms
ScanTimes == {<<0, 2>>, <<1, 31>>, <<1, 32>>, <<1, 33>>}
ScanPlatforms == {"TikTok", "Bilibili"}

\* the node pools the scan is run on: the active item first, then another
\* node with any identifier of the pool, platform and time
NodePools ==
    {<<[uid |-> ShellUid, platform |-> pf1, exec_time |-> t1],
       [uid |-> u2, platform |-> pf2, exec_time |-> t2]>> :
        pf1 \in ScanPlatforms, t1 \in {<<0, 2>>},
        u2 \in UidPool, pf2 \in ScanPlatforms, t2 \in ScanTimes}

\* schedule.py:353: detect_collision_risk(dummy, self.node_pool) for the
\* active item pool[i] and the editor showing platform pf and time tm
Call_detect_collision_risk(i, pf, tm, pool) ==
    /\ mainVisible
    /\ warnings' = [active |-> i, target |-> LiveAnalysisTarget(pool[i], pf, tm),
                    pool |-> pool,
                    out |-> ChronosPulseEngine_detect_collision_risk(
                                LiveAnalysisTarget(pool[i], pf, tm), pool)]
    /\ UNCHANGED <<loginVars, shellVars, panelVars, scoreVars, dashVars, planVars>>

-----------------------------------------------------------------------------
(* The specifications                                                      *)

\* MainWindow.__init__ -> _init_viewport: ModuleManager(self.viewport), then
\* switch_module("dashboard"), which mounts the dashboard or logs an error
MainWindowBuilt(fault) ==
    /\ sidebar = "dashboard"
    /\ lastSwitch = [name |-> "dashboard", outcome |-> Outcome(fault)]
    /\ failedBefore = FALSE
    /\ prevDirty = FALSE
    /\ deleteLater = {}
    /\ staleUpdate = FALSE
    /\ IF fault = "none"
       THEN /\ container = ContainerAfter(<<>>, 0, 1, fault)
            /\ active_module = 1
            /\ nWidgets = 1
            /\ mounted = "dashboard"
            /\ threads = {1}
            /\ PanelIs(EntryWidget_new("dashboard", 1, <<>>, <<>>))
       ELSE /\ container = <<>>
            /\ active_module = 0
            /\ nWidgets = 0
            /\ mounted = ""
            /\ threads = {}
            /\ PanelIs(NoPanel)

\* the login has succeeded with the default credentials: on_success has run;
\* data_planning.json is as an earlier run has left it
LoggedInWith(file) ==
    /\ u_input = "admin"
    /\ p_input = "123456"
    /\ login_btn = FALSE
    /\ authTimers = 0
    /\ lastAuth = [called |-> TRUE, u |-> "admin", p |-> "123456",
                   valid |-> verify_credential("admin", "123456").valid,
                   msg |-> verify_credential("admin", "123456").msg]
    /\ attempts = 0
    /\ loginVisible = FALSE
    /\ mainVisible = TRUE
    /\ running = TRUE
    /\ scoreCall = NoCall
    /\ nEdits = 0
    /\ SideIdle
    /\ storage = file

LoggedIn == LoggedInWith(NoFile)

\* ---- the login window ----
InitLogin ==
    /\ InitLoginVars
    /\ MainWindowBuilt("none")

NextLogin ==
    \/ \E u \in Usernames : EditUsername(u)
    \/ \E p \in Passwords : EditPassword(p)
    \/ process_login
    \/ exec_auth
    \/ exit_system

SpecLogin == InitLogin /\ [][NextLogin]_vars

\* ---- one mounted panel ----
\* the dashboard was mounted first, the sidebar then mounted module m as the
\* second widget, and the dashboard widget has been deleted and finalized
PanelBuilt(m, uids) ==
    /\ sidebar = m
    /\ lastSwitch = [name |-> m, outcome |-> Outcome("none")]
    /\ failedBefore = FALSE
    /\ prevDirty = FALSE
    /\ deleteLater = {}
    /\ staleUpdate = FALSE
    /\ container = <<2>>
    /\ active_module = 2
    /\ nWidgets = 2
    /\ mounted = m
    /\ threads = {}
    /\ PanelIs(EntryWidget_new(m, 2, uids, <<>>))

InitPanel ==
    /\ LoggedIn
    /\ \E m \in StoreModules, uids \in SeedUids : PanelBuilt(m, uids)

\* the search box and the category selector
PanelQueries ==
    \/ \E t \in QueryTexts, c \in CatChoices("resources") : Resources_on_query_change(t, c)
    \/ \E t \in QueryTexts, c \in CatChoices("analytics") : Analytics_on_query_change(t, c)

\* the handlers of the distribution panel
DistributionEdits ==
    \/ \E uid \in UidPool : Distribution_add_node_flow(uid)
    \/ \E uid \in ItemTexts : Distribution_select_node(uid)
    \/ Distribution_delete_node

\* the handlers of the other panels
OtherEdits ==
    \/ \E f \in FileNames, uid \in UidPool : Resources_handle_create_flow(f, uid)
    \/ \E uid \in UidPool : Schedule_handle_create_node(uid)
    \/ \E uid \in UidPool : Copyright_handle_create_node(uid)
    \/ Feedback_handle_sync
    \/ \E uid \in UidPool : Feedback_finalize_sync(uid)
    \/ \E row \in 1..MaxRows : Resources_activate_inspector(row)
    \/ \E row \in 1..MaxRows : Workflow_load_task_detail(row)
    \/ \E uid \in ItemTexts : Analytics_load_detail_report(uid)
    \/ \E uid \in ItemTexts, n \in RiskNoises : Copyright_load_inspector_data(uid, n)
    \/ \E uid \in ItemTexts : Feedback_load_detail_to_inspector(uid)
    \/ \E uid \in ItemTexts : Schedule_load_node_to_inspector(uid)
    \/ Resources_handle_delete_sequence
    \/ Analytics_handle_delete_report
    \/ Copyright_handle_delete_node
    \/ Schedule_handle_delete_node
    \/ Feedback_handle_delete_node
    \/ Feedback_handle_commit_feedback

NextPanel == PanelQueries \/ DistributionEdits \/ OtherEdits

SpecPanel == InitPanel /\ [][NextPanel]_vars

\* ---- one mounted panel and its editors ----
\* the identifiers drawn by the seeding loop, taken from the pool in turn
SeedUidsInTurn ==
    [i \in 1..NSeed |-> IF i % 2 = 1 THEN <<"N", "1">> ELSE <<"N", "2">>]

InitEdit ==
    /\ LoggedIn
    /\ \E m \in StoreModules : PanelBuilt(m, SeedUidsInTurn)

\* every handler of the panels; the create handlers draw the identifier of
\* the first seeded record, the queries use two texts and no category,
\* the select of the copyright panel draws the middle of the noise band
NextEdit ==
    \/ \E t \in {<<>>, <<"a">>} : Resources_on_query_change(t, AllSentinel("resources"))
    \/ \E t \in {<<>>, <<"a">>} : Analytics_on_query_change(t, AllSentinel("analytics"))
    \/ Resources_handle_create_flow(NewTitle, ShellUid)
    \/ Distribution_add_node_flow(ShellUid)
    \/ Schedule_handle_create_node(ShellUid)
    \/ Copyright_handle_create_node(ShellUid)
    \/ Feedback_handle_sync
    \/ Feedback_finalize_sync(ShellUid)
    \/ \E row \in 1..MaxRows : Resources_activate_inspector(row)
    \/ \E row \in 1..MaxRows : Workflow_load_task_detail(row)
    \/ \E uid \in ItemTexts : Analytics_load_detail_report(uid)
    \/ \E uid \in ItemTexts : Copyright_load_inspector_data(uid, 1000)
    \/ \E uid \in ItemTexts : Feedback_load_detail_to_inspector(uid)
    \/ \E uid \in ItemTexts : Schedule_load_node_to_inspector(uid)
    \/ \E uid \in ItemTexts : Distribution_select_node(uid)
    \/ Resources_handle_delete_sequence
    \/ Analytics_handle_delete_report
    \/ Copyright_handle_delete_node
    \/ Schedule_handle_delete_node
    \/ Distribution_delete_node
    \/ Feedback_handle_delete_node
    \/ Feedback_handle_commit_feedback
    \/ \E sl \in SliderSettings, f \in MarketFluctuations :
          Resources_run_valuation_update(sl, f)
    \/ \E sl \in SliderSettings, n \in RiskNoises : Copyright_exec_risk_simulation(sl, n)
    \/ \E sl \in SliderSettings : Workflow_run_consensus_algo(sl)
    \/ Analytics_recalc_global
    \/ \E text \in SaveTitles, c \in {"c1", "c2"} : Resources_commit_update(text, c)
    \/ \E text \in SaveTitles : Copyright_handle_save_changes(text)
    \/ \E is_pass \in BOOLEAN : Workflow_finalize_decision(is_pass)
    \/ \E text \in SaveTitles, c \in {"c1", "c2"}, t \in SaveTimes :
          Schedule_handle_save_node(text, c, t)
    \/ \E text \in SaveTitles, c \in {"c1", "c2"} : Distribution_save_node(text, c)

SpecEdit == InitEdit /\ [][NextEdit]_vars

\* ---- the main window ----
InitShell ==
    /\ LoggedIn
    /\ \E fault \in Faults : MainWindowBuilt(fault)

NextShell ==
    \/ \E mid \in ModuleNames, fault \in Faults :
          \E uids \in SeedUidsOf(mid, fault) : MainWindow_switch_module(mid, fault, uids)
    \/ ModuleManager_switch_unknown
    \/ \E w \in 1..MaxWidgets : DeferredDelete(w)
    \/ \E w \in 1..MaxWidgets : Dashboard_del(w)
    \/ \E w \in 1..MaxWidgets : LiveTrendThread_run(w)
    \/ Distribution_add_node_flow(ShellUid)
    \/ Distribution_select_node(ShellUid)
    \/ Distribution_delete_node

SpecShell == InitShell /\ [][NextShell]_vars

\* ---- the scoring engines ----
\* the main window with the dashboard mounted; the engines are called with
\* attributes at the ends and the middle of their sliders
InitScore ==
    /\ LoggedIn
    /\ MainWindowBuilt("none")

NextScore ==
    \/ \E a \in Levels \X Levels \X Levels \X Levels \X Months, f \in MarketFluctuations :
          Call_evaluate_node(a, f)
    \/ \E a \in Levels \X Levels \X ProtLevels, n \in RiskNoises :
          Call_run_risk_matrix_analysis(a, n)
    \/ \E sc \in Levels \X Levels \X Levels : Call_calculate_confidence(sc)
    \/ \E d \in Levels \X Levels \X Levels : Call_evaluate_content(d)
    \/ \E m \in Levels \X Levels \X Levels \X Levels \X HoursPassed, n \in InfluenceNoises :
          Call_calculate_influence(m, n)
    \/ \E pf \in Platforms, t \in TimesOfDay : Call_calculate_resonance(pf, t)

SpecScore == InitScore /\ [][NextScore]_vars

\* ---- the planning panel ----
InitPlan ==
    /\ \E file \in EarlierFiles : LoggedInWith(file)
    /\ PanelBuilt("planning", SeedUidsInTurn)

NextPlan ==
    \/ \E t \in PlanTitles : Planning_edit_title(t)
    \/ \E k \in 1..5, v \in SliderEnds : Planning_move_slider(k, v)
    \/ \E disk \in DiskOutcomes : Planning_handle_save_action(disk)
    \/ Planning_handle_import_action

SpecPlan == InitPlan /\ [][NextPlan]_vars

\* ---- the collision scan of the schedule engine on drawn inputs ----
InitCollision ==
    /\ LoggedIn
    /\ MainWindowBuilt("none")

NextCollision ==
    \E pool \in NodePools, pf \in ScanPlatforms, tm \in ScanTimes :
        Call_detect_collision_risk(1, pf, tm, pool)

SpecCollision == InitCollision /\ [][NextCollision]_vars

\* ---- the mounted dashboard and the deliveries of its thread ----
InitDash ==
    /\ LoggedIn
    /\ MainWindowBuilt("none")

NextDash ==
    \E r \in Reaches, n \in InfluenceNoises : Dashboard_update_dashboard(r, n)

SpecDash == InitDash /\ [][NextDash]_vars

-----------------------------------------------------------------------------
(* Properties of the planning panel, under SpecPlan                        *)

\* C22: after each successful save the file holds the panel's whole
\* snapshot list, the snapshot just saved last, and that snapshot is the
\* title and the gene values on screen; an import right after the save
\* sets the title and every gene slider to exactly the values saved.
C22_SaveThenImport ==
    /\ [](planOp[2] = "save" =>
             /\ storage.exists
             /\ JsonLoad(storage.data) = snapshot_manager
             /\ snapshot_manager[Len(snapshot_manager)] =
                    [title |-> ui_title, genes |-> gene_sliders])
    /\ [][(planOp[2] = "save" /\ planOp'[2] = "import") =>
             /\ ui_title' = snapshot_manager[Len(snapshot_manager)].title
             /\ gene_sliders' = snapshot_manager[Len(snapshot_manager)].genes
         ]_vars

\* a second snapshot, with a title of a backslash and a quote and a moved
\* slider, has been saved over an earlier run's file and imported at once
C22_Witness ==
    /\ planOp = <<"save", "import">>
    /\ Len(snapshot_manager) = MaxSaves
    /\ ui_title = <<"\\", "\"">>
    /\ gene_sliders # DefaultGenes
    /\ Len(storage.data) = MaxSaves

-----------------------------------------------------------------------------
(* Properties of the collision scan, under SpecCollision                   *)

\* the distance of two times of day, in minutes
MinutesApart(a, b) ==
    IF Minutes(a) >= Minutes(b) THEN Minutes(a) - Minutes(b)
    ELSE Minutes(b) - Minutes(a)

\* C25: the scan warns for exactly the pool nodes, other than the target
\* itself, that are on the target's platform with a time less than 90
\* minutes from the target's; it warns for no node of another platform or
\* at 90 minutes or more.
C25_CollisionExactly ==
    warnings.active # 0 =>
        warnings.out =
            {j \in 1..Len(warnings.pool) :
                /\ j # warnings.active
                /\ warnings.pool[j].platform = warnings.target.platform
                /\ MinutesApart(warnings.target.exec_time,
                                warnings.pool[j].exec_time) < 90}

-----------------------------------------------------------------------------
(* Properties of the dashboard's log, under SpecDash                       *)

\* C24: after any number of deliveries the log holds at most 30 entries,
\* newest on top: it is the latest deliveries, up to 30 of them, in
\* descending order; a delivery to a full log removes the oldest entry and
\* no other.
C24_LogBounded ==
    /\ [](/\ Len(log_vbox) = Min2(delivered, LogLimit)
          /\ \A i \in 1..Len(log_vbox) : log_vbox[i] = delivered - i + 1)
    /\ [][(delivered' = delivered + 1 /\ Len(log_vbox) = LogLimit) =>
             /\ Len(log_vbox') = LogLimit
             /\ \A i \in 1..(LogLimit - 1) : log_vbox'[i + 1] = log_vbox[i]
             /\ \A i \in 1..LogLimit : log_vbox'[i] # log_vbox[LogLimit]
         ]_vars

\* two deliveries have reached a full log
C24_Witness ==
    /\ delivered = LogLimit + 2
    /\ Len(log_vbox) = LogLimit
    /\ log_vbox[LogLimit] = 3

-----------------------------------------------------------------------------
(* Properties of the login gate, under SpecLogin                           *)

C7_FailsClosed ==
    (lastAuth.called /\ (lastAuth.u = "" \/ lastAuth.p = "")) =>
        /\ ~lastAuth.valid
        /\ lastAuth.msg = MsgEmpty
        /\ lastAuth.msg # MsgMismatch

\* the registered user name with an empty password has been refused
C7_Witness ==
    /\ lastAuth.called
    /\ lastAuth.u = "admin" /\ lastAuth.p = ""
    /\ lastAuth.msg = MsgEmpty
    /\ ~mainVisible

\* C8: the main window is visible only after a verify_credential call that
\* returned valid; a refused attempt never shows it; and while the
\* application runs the login window closes in exactly the step that shows
\* the main window.
C8_LoginGate ==
    /\ [](mainVisible => (lastAuth.called /\ lastAuth.valid))
    /\ [](running => (loginVisible <=> ~mainVisible))
    /\ [][(~mainVisible /\ mainVisible') =>
             (lastAuth'.valid /\ loginVisible /\ ~loginVisible')]_vars
    /\ [][(running' /\ loginVisible /\ ~loginVisible') =>
             (~mainVisible /\ mainVisible')]_vars
    /\ [][(attempts' > attempts) => (~mainVisible /\ ~mainVisible')]_vars

\* the main window shown after two refused attempts
C8_Witness ==
    /\ mainVisible /\ ~loginVisible
    /\ attempts >= 2
    /\ lastAuth.valid

\* a step in which the delayed credential check runs
AuthStep == authTimers' = authTimers - 1

\* C30: at most one credential check is pending at any time: the login
\* button is disabled while a check is pending, every failed check enables
\* it again whatever the number of failures so far, and after a successful
\* check it stays disabled.
C30_OnePendingCheck ==
    /\ [](/\ authTimers \in {0, 1}
          /\ authTimers = 1 => ~login_btn
          /\ (lastAuth.called /\ lastAuth.valid) => ~login_btn)
    /\ [][AuthStep => (login_btn' <=> ~lastAuth'.valid)]_vars

\* a second check is pending after a first one has failed
C30_Witness ==
    /\ attempts >= 1
    /\ lastAuth.called /\ ~lastAuth.valid
    /\ authTimers = 1 /\ ~login_btn

-----------------------------------------------------------------------------
(* Properties of the list and create operations, under SpecPanel           *)

\* two characters that are the same letter, whatever their case
SameLetter(a, b) ==
    \/ a = b
    \/ {a, b} \in {{"a", "A"}, {"b", "B"}, {"n", "N"}}

\* text occurs in s at some offset, compared letter by letter without case
OccursIgnoringCase(text, s) ==
    \E i \in 0..(Len(s) - Len(text)) :
        \A k \in 1..Len(text) : SameLetter(text[k], s[i + k])

\* the records a list operation with filter text t and category filter c has
\* to return, in store order
Expected(store, t, c, sentinel) ==
    SelectSeq(store, LAMBDA r :
        /\ (OccursIgnoringCase(t, r.uid) \/ OccursIgnoringCase(t, r.title))
        /\ (c = sentinel \/ r.cat = c))

\* the identities of the records of a store, in store order
Idents(store) == [i \in 1..Len(store) |-> Ident(store[i])]
RowIds(rows) == [i \in 1..Len(rows) |-> rows[i].id]

\* C9: after a list operation the list shows exactly the records of the
\* store, in store order, whose identifier or title contains the filter text
\* without regard to case and whose category equals the category filter (any
\* category for the sentinel); with empty text and the sentinel it shows the
\* whole store in its order.
C9_ListFilter ==
    lastOp = "list" =>
        /\ RowIds(view) = Idents(Expected(db, kw, cat, AllSentinel(Mod)))
        /\ (kw = <<>> /\ cat = AllSentinel(Mod)) => RowIds(view) = Idents(db)

\* a list operation whose text matches one record only through a difference
\* of case and leaves another record out
C9_Witness ==
    /\ lastOp = "list"
    /\ kw = <<"B">>
    /\ cat = "c1"
    /\ Len(view) = 1
    /\ Len(db) > 1

\* a step of a create handler that has completed
CreateStep == lastOp' = "create" /\ nextOid' = nextOid + 1

\* the list operation of the mounted panel with empty text and no category
ListAll(store) ==
    IF Mod = "resources"
    THEN Resources_exec_query(store, <<>>, AllSentinel("resources"))
    ELSE SyncTable(store)

\* C10: a completed create adds exactly one new record, at index 0 of the
\* store, and keeps the records that were there in their order; a list
\* operation with empty text and the sentinel has the new record first, and
\* so has the list on screen when that is the filter in force.
C10_CreateAtFront ==
    [][CreateStep =>
          /\ Len(db') = Len(db) + 1
          /\ Tail(db') = db
          /\ \A i \in 1..Len(db) : Ident(db[i]) # Ident(db'[1])
          /\ ListAll(db')[1].id = Ident(db'[1])
          /\ (kw = <<>> /\ cat = AllSentinel(Mod)) => view'[1].id = Ident(db'[1])
      ]_vars

\* a create has completed on a store that still holds its seeded records
C10_Witness ==
    /\ lastOp = "create"
    /\ Len(db) = NSeed + 1
    /\ db[1].oid = NSeed + 1
    /\ view # <<>> /\ view[1].id = Ident(db[1])

\* C19: in every state each record's stored score is the value its scoring
\* function gives for the record's current inputs, for some random factor of
\* the function's band: after seeding, after create and after every edit.
C19_ScoreMatchesInputs ==
    Mod \in ScoredModules =>
        \A i \in 1..Len(db) :
            db[i].score \in {ScoreOf(Mod, db[i].cat, db[i].attr, j) : j \in Jitters(Mod)}

\* a step in which a delete handler has removed the focused record
DeleteStep == focus # NoFocus /\ lastOp' = "delete" /\ Len(db') = Len(db) - 1

\* C12: after a confirmed delete of the focused record the focus is none,
\* and a select of the deleted record's identifier finds no record, so it
\* focuses none.
C12_DeletedNotFound ==
    [][DeleteStep =>
          /\ focus' = NoFocus
          /\ FirstByUid(db', Focused.uid) = 0
      ]_vars

\* the records of a store, as a set of identities
IdentSet(store) == {Ident(store[i]) : i \in 1..Len(store)}

\* C21: a record leaves the store only through the delete action on the
\* focused record: every step that removes a record is a delete step and
\* removes the focused record alone; list, select, recompute, create and
\* save/commit remove none.
C21_OnlyDeleteRemoves ==
    [][~(IdentSet(db) \subseteq IdentSet(db')) =>
          /\ lastOp' = "delete"
          /\ IdentSet(db) \ IdentSet(db') = {focus}
      ]_vars

\* C28: in the panels with a search box and a category filter the list on
\* screen is, after every operation, the result of the list operation with
\* the filter text and the category in force on the store as it is now.
C28_ViewFollowsFilter ==
    Mod \in {"resources", "analytics"} =>
        RowIds(view) = Idents(Expected(db, kw, cat, AllSentinel(Mod)))

\* the workflow tasks whose final decision has been confirmed
Decided(store) ==
    {i \in 1..Len(store) : store[i].status \in {"closed", "rejected"}}

\* C23: once a final decision has been confirmed for a workflow task, no
\* later operation of the panel alters the task's status or current_stage.
C23_DecisionFinal ==
    [][Mod = "workflow" /\ mounted' = mounted =>
          \A i \in Decided(db) :
              /\ i <= Len(db')
              /\ Ident(db'[i]) = Ident(db[i])
              /\ db'[i].status = db[i].status
              /\ db'[i].current_stage = db[i].current_stage
      ]_vars

\* C27: in every panel with a list and a detail editor the editor page is
\* shown exactly when a record is focused.
C27_EditorIffFocused ==
    Mod \in StoreModules => (page = 1 <=> focus # NoFocus)

\* a step in which a handler takes the focused record out of the store
RemoveFocusedStep == focus # NoFocus /\ lastOp' \in {"delete", "commit"}

\* C29: the focused record, if any, is a member of the store, once; a
\* removal of the focused record finds it and removes exactly it, the
\* other records stay in their order.
C29_FocusInStore ==
    /\ [](focus # NoFocus =>
             Cardinality({i \in 1..Len(db) : Ident(db[i]) = focus}) = 1)
    /\ [][RemoveFocusedStep =>
             /\ Len(db') = Len(db) - 1
             /\ IdentSet(db') = IdentSet(db) \ {focus}
             /\ Idents(db') = SelectSeq(Idents(db), LAMBDA id : id # focus)
         ]_vars

\* a focused record has been deleted from a store that holds a created
\* record whose identifier text a seeded record carries too
C29_Witness ==
    /\ lastOp = "delete"
    /\ nextOid > NSeed + 1
    /\ Len(db) = NSeed
    /\ \E i \in 1..Len(db) : db[i].oid > NSeed /\ db[i].uid = ShellUid

\* a select handler of a table panel is given an item whose identifier text
\* matches no record of the store
SelectMiss(uid) ==
    /\ FirstByUid(db, uid) = 0
    /\ \/ Analytics_load_detail_report(uid)
       \/ Feedback_load_detail_to_inspector(uid)
       \/ Distribution_select_node(uid)
       \/ Schedule_load_node_to_inspector(uid)
       \/ \E n \in RiskNoises : Copyright_load_inspector_data(uid, n)

\* C13: in every panel a select whose identifier matches no record leaves
\* the focus as it was.
C13_MissKeepsFocus ==
    [][\A uid \in ItemTexts : SelectMiss(uid) => focus' = focus]_vars

\* C20: the records of a store carry pairwise distinct identifiers, after
\* seeding and after every create.
C20_DistinctIdentifiers ==
    \A i, j \in 1..Len(db) : i # j => db[i].uid # db[j].uid

-----------------------------------------------------------------------------
(* Properties of the module manager, under SpecShell                       *)

\* the widgets held by the viewport's layout
InContainer == {container[i] : i \in 1..Len(container)}

\* a step in which switch_module has constructed and mounted a widget
MountStep == nWidgets' = nWidgets + 1

\* C1: after any sequence of switch_module calls the container holds at
\* most one panel, the one recorded in active_module; after a successful
\* switch it is the newly constructed panel of the requested module, and the
\* panel mounted before is no longer in the container.
C1_SinglePanel ==
    /\ [](/\ Len(container) <= 1
          /\ container = IF active_module = 0 THEN <<>> ELSE <<active_module>>
          /\ lastSwitch.outcome = "mounted" =>
                 /\ container = <<nWidgets>>
                 /\ mounted = lastSwitch.name)
    /\ [][MountStep =>
             /\ container' = <<nWidgets'>>
             /\ active_module \notin {container'[i] : i \in 1..Len(container')}
             /\ mounted' = lastSwitch'.name]_vars

\* a third panel mounted over the second, with a failed switch in between
C1_Witness ==
    /\ nWidgets = MaxWidgets
    /\ lastSwitch.outcome = "mounted"
    /\ failedBefore
    /\ container = <<MaxWidgets>>
    /\ mounted = "planning"

\* C26: once the main window is shown, the sidebar entry named Active is
\* the module whose panel is mounted in the viewport, also after a
\* switch_module call whose loading failed.
C26_ActiveNamesMounted ==
    mainVisible => sidebar = mounted

\* C2 as stated: after a switch_module call that failed the container is
\* empty, the panel mounted before it detached.
C2_FailedSwitchEmpties ==
    lastSwitch.outcome = "logged" => container = <<>>

\* C2, as the code behaves: a switch_module call that fails leaves the
\* container, active_module and the mounted panel as they were, so a panel
\* mounted before the call is still the one panel in the container.
C2_FailedSwitchKeepsPanel ==
    /\ [][lastSwitch'.outcome = "logged" =>
             /\ container' = container
             /\ active_module' = active_module
             /\ mounted' = mounted
             /\ nWidgets' = nWidgets]_vars
    /\ []((lastSwitch.outcome = "logged" /\ nWidgets > 0) =>
             (active_module # 0 /\ container = <<active_module>>))

\* a switch to a name that is no module has failed over a mounted panel
C2_Witness ==
    /\ lastSwitch.outcome = "logged"
    /\ lastSwitch.name = UnknownName
    /\ active_module # 0
    /\ container = <<active_module>>
    /\ mounted = "planning"

\* C3: no switch_module call raises to its caller, an unknown name or a
\* failing constructor is logged, and after a failed call a switch to a
\* module that loads can still be made (shown for the dashboard, a panel
\* without a store and a panel with one) and every such switch, to whatever
\* module, mounts that module.
C3_NeverRaises ==
    /\ [](lastSwitch.outcome \in {"mounted", "logged"})
    /\ []((lastSwitch.outcome = "logged" /\ nWidgets < MaxWidgets) =>
             \A mid \in {"dashboard", "planning", "resources"} :
                 \E uids \in SeedUidsOf(mid, "none") :
                     ENABLED MainWindow_switch_module(mid, "none", uids))
    /\ [][(lastSwitch.outcome = "logged" /\ MountStep) =>
             /\ lastSwitch'.outcome = "mounted"
             /\ mounted' = lastSwitch'.name
             /\ container' = <<active_module'>>]_vars

\* a module mounted by the call that followed a failed call
C3_Witness ==
    /\ failedBefore
    /\ lastSwitch.outcome = "mounted"
    /\ mounted = "resources"
    /\ container = <<active_module>>
    /\ sidebar = "resources"

\* C4: every successful switch_module call, also one that names the module
\* already mounted, mounts a new EntryWidget whose store holds the seeded
\* records of that widget only, untouched, with no focused record: nothing
\* done in the panel replaced shows in the new one.
C4_FreshPanel ==
    /\ []((lastSwitch.outcome = "mounted" /\ lastOp = "init") =>
             /\ Len(db) = IF mounted \in StoreModules THEN NSeed ELSE 0
             /\ \A i \in 1..Len(db) :
                    /\ db[i].owner = active_module
                    /\ db[i].oid = i
                    /\ db[i].title = SeedTitle(i)
                    /\ db[i].cat = SeedCat(i)
                    /\ db[i].hist = 1
             /\ focus = NoFocus
             /\ page = 0
             /\ RowIds(view) = Idents(db)
             /\ ~dirty)
    /\ [][MountStep =>
             /\ active_module' = nWidgets'
             /\ active_module' # active_module
             /\ lastOp' = "init"]_vars

\* the distribution panel mounted again over a distribution panel in which
\* records had been created or deleted
C4_Witness ==
    /\ prevDirty
    /\ lastSwitch.outcome = "mounted"
    /\ mounted = "distribution"
    /\ lastOp = "init"
    /\ Len(db) = NSeed
    /\ focus = NoFocus

\* the dashboard panels in the container
MountedDashboards == IF mounted = "dashboard" THEN InContainer ELSE {}

\* C5 as stated: the LiveTrendThread of a replaced dashboard panel is
\* stopped and delivers no update, so the running threads are at most the
\* mounted dashboard panels.
C5_NoLeakedThread ==
    /\ threads \subseteq MountedDashboards
    /\ Cardinality(threads) <= Cardinality(MountedDashboards)
    /\ ~staleUpdate

-----------------------------------------------------------------------------
(* Properties of the scoring engines, under SpecScore                      *)

\* C18: every scoring function returns a score between 0 and 100 whenever
\* its attributes lie between 0 and 100; in particular neither the score of
\* CultureAlgorithm.evaluate_content nor the result of
\* MatrixAnalyticsEngine.calculate_influence exceeds 100 or is negative.
C18_ScoresClamped ==
    (/\ scoreCall.fn # "none"
     /\ \A k \in 1..Len(scoreCall.args) : scoreCall.args[k] \in 0..100)
        => scoreCall.out \in 0..10000

-----------------------------------------------------------------------------
(* Properties of the editors, under SpecEdit                               *)

\* C17: whatever positions within their ranges the sliders are left at, all
\* at zero and all at the maximum included, and whatever random factor the
\* engine draws, the score a recompute stores (resources, copyright) or
\* shows (workflow) lies between 0 and 100; so does every stored score.
C17_ScoreInRange ==
    /\ \A i \in 1..Len(db) : db[i].score \in 0..10000
    /\ scoreCall.fn = "calculate_confidence" => scoreCall.out \in 0..10000

\* a valuation recomputed with every slider at 100 and the largest
\* fluctuation, which the engine caps at 100
C17_Witness ==
    /\ lastOp = "recompute" /\ Mod = "resources" /\ focus # NoFocus
    /\ \A k \in 1..4 : Focused.attr[k] = 100
    /\ Focused.score = 10000

\* the identities of the records of store a that store b holds too, in the
\* order of a
Kept(a, b) ==
    SelectSeq(Idents(a), LAMBDA x : \E j \in 1..Len(b) : Ident(b[j]) = x)

\* C11: no operation (list, select, recompute, save, create, delete) changes
\* the relative order of the records that stay in the store; a record that
\* enters the store enters at the front.
C11_OrderStable ==
    [][/\ Kept(db', db) = Kept(db, db')
       /\ \A i \in 1..Len(db') :
             (\A j \in 1..Len(db) : Ident(db[j]) # Ident(db'[i])) => i = 1
      ]_vars

\* a store that has seen a create, a recompute and a save of a record that
\* is not at the front, and a delete
C11_Witness ==
    /\ Mod = "resources" /\ lastOp = "delete"
    /\ Len(db) = NSeed
    /\ db[1].oid = NSeed + 1
    /\ \E i \in 2..Len(db) : db[i].hist = 3

\* the record of a store that has identity id
RecordOf(store, id) == store[CHOOSE i \in 1..Len(store) : Ident(store[i]) = id]

\* the title the inspector shows after a select of the identifier of record
\* id: the resources panel is handed the record itself, the table panels
\* look the identifier text up in the store
ShownTitle(store, id) ==
    IF Mod = "resources" THEN RecordOf(store, id).title
    ELSE store[FirstByUid(store, RecordOf(store, id).uid)].title

\* a save handler runs with `text` in the title field
SavesTitle(text) ==
    \/ \E c \in {"c1", "c2"} : Resources_commit_update(text, c)
    \/ Copyright_handle_save_changes(text)
    \/ \E c \in {"c1", "c2"}, t \in SaveTimes : Schedule_handle_save_node(text, c, t)
    \/ \E c \in {"c1", "c2"} : Distribution_save_node(text, c)

\* C14: for every title that is not blank, after a save a select of the
\* same identifier shows a title equal to the saved one character for
\* character, leading and trailing blanks included.
C14_TitleRoundTrip ==
    [][\A text \in SaveTitles :
          (Strip(text) # <<>> /\ SavesTitle(text)) => ShownTitle(db', focus) = text
      ]_vars

\* C15: in every panel with a save, a save with a blank title is refused
\* and leaves the record, and the store, exactly as they were.
C15_BlankSaveRefused ==
    [][\A text \in SaveTitles :
          (Strip(text) = <<>> /\ SavesTitle(text)) => db' = db
      ]_vars

\* the slider values a recompute of the mounted panel has to write, by
\* position in the record's inputs
WrittenInputs(sl) ==
    CASE Mod = "resources" -> [k \in 1..4 |-> sl[k]]
      [] Mod = "copyright" -> [k \in 1..2 |-> sl[k]]
      [] OTHER             -> [k \in 2..3 |-> sl[k - 1]]

\* the values the scoring function of the mounted panel can return for attr
ScoresFor(attr) ==
    IF Mod = "workflow" THEN {DecisionEngine_calculate_confidence(attr)}
    ELSE {ScoreOf(Mod, "c1", attr, j) : j \in Jitters(Mod)}

\* a recompute handler of a panel runs with the sliders at sl
Recomputes(sl) ==
    \/ \E f \in MarketFluctuations : Resources_run_valuation_update(sl, f)
    \/ \E n \in RiskNoises : Copyright_exec_risk_simulation(sl, n)
    \/ Workflow_run_consensus_algo(sl)

\* C16: a recompute writes the inputs it is given into the focused record,
\* sets the record's stored score to the scoring function's result for them,
\* appends exactly one history entry, and changes no other record.
C16_RecomputeWrites ==
    [][\A sl \in SliderSettings : Recomputes(sl) =>
          /\ \A k \in DOMAIN WrittenInputs(sl) :
                RecordOf(db', focus).attr[k] = WrittenInputs(sl)[k]
          /\ RecordOf(db', focus).score \in ScoresFor(RecordOf(db', focus).attr)
          /\ RecordOf(db', focus).hist = RecordOf(db, focus).hist + 1
          /\ Len(db') = Len(db)
          /\ \A i \in 1..Len(db) : Ident(db[i]) # focus => db'[i] = db[i]
      ]_vars

====
